---- MODULE Spec2Model ----
(***************************************************************************)
(* key2ser: the runtime pipeline of key2ser/runner.py.  A supervisor       *)
(* (run_event_loop) opens the input device, runs one of two event loops    *)
(* over a freshly created BufferState and an opened serial sink, and       *)
(* reconnects after device or serial failures.  Key events are decoded by  *)
(* _handle_key_down/_handle_key_up; payloads go through                    *)
(* _send_payload_with_dedup to the port.                                   *)
(*                                                                         *)
(* Python values: a str is a sequence of characters (each character a      *)
(* TLA+ string naming it), bytes is a sequence of numbers, Optional[x] is  *)
(* <<>> for None and <<x>> otherwise.  The monotonic clock counts ticks.   *)
(* An event whose keycode is a list is dispatched keycode by keycode by    *)
(* the same handler, so the model delivers one keycode per step.           *)
(***************************************************************************)
EXTENDS Integers, Sequences, FiniteSets, TLC

\* Bounds of the model.
MaxText == 2
MaxTime == 2
MaxAttempts == 2
MaxFailAt == 2

None == <<>>
Some(x) == <<x>>

Keycodes ==
  {"KEY_A", "KEY_ENTER", "KEY_LEFTSHIFT", "KEY_RIGHTSHIFT",
   "KEY_KATAKANAHIRAGANA", "KEY_BACKSPACE", "KEY_UNKNOWN"}

SHIFT_KEYCODES == {"KEY_LEFTSHIFT", "KEY_RIGHTSHIFT"}

KANA_TOGGLE_KEYCODES == {"KEY_KATAKANAHIRAGANA"}

\* KeyMapper.map_keycode: (keycode, shift, kana) -> Optional[str]; kana
\* overrides shift, unknown keycodes give None.  "chi" is a kana character
\* (outside ASCII).
map_keycode(keycode, shift, kana) ==
  IF keycode = "KEY_A"
  THEN IF kana THEN Some(<<"chi">>)
       ELSE IF shift THEN Some(<<"A">>) ELSE Some(<<"a">>)
  ELSE None

\* Python truthiness of an Optional[str]: None and "" are false.
Truthy(opt) == opt # None /\ opt[1] # <<>>

\* A buffer that comes with text and a last-sent record.
buffer_state_stale ==
  [text |-> <<"a">>, shift_keys |-> {}, kana_mode |-> FALSE,
   last_input_time |-> None, last_sent_payload |-> <<<<"a", "CR">>>>,
   last_sent_time |-> <<0>>]

BufferState ==
  [text |-> <<>>, shift_keys |-> {}, kana_mode |-> FALSE,
   last_input_time |-> None, last_sent_payload |-> None,
   last_sent_time |-> None]

shift_active(st) == st.shift_keys # {}

\* text[:-1]
DropLast(s) == IF s = <<>> THEN <<>> ELSE SubSeq(s, 1, Len(s) - 1)

\* A reset that also drops the modifier state.
reset_clears_modifiers(st) ==
  [st EXCEPT !.text = <<>>, !.last_input_time = None, !.shift_keys = {},
             !.kana_mode = FALSE]

\* A reset that leaves the idle timer armed.
reset_text_only(st) == [st EXCEPT !.text = <<>>]

_reset_buffer(st) == [st EXCEPT !.text = <<>>, !.last_input_time = None]

\* A terminator that sends only a non-empty buffer, whatever send_on_enter.
terminator_needs_text(st, c) ==
  [state |-> _reset_buffer(st),
   payload |-> IF st.text # <<>> THEN Some(st.text \o c.line_end) ELSE None]

\* _handle_key_down, the terminator key in on_enter mode: the payload is
\* taken before the reset.
terminator_branch(st, c) ==
  [state |-> _reset_buffer(st),
   payload |-> IF st.text # <<>> \/ c.send_on_enter
               THEN Some(st.text \o c.line_end) ELSE None]

\* A Backspace that empties the buffer.
backspace_clears_text(st, c, t) ==
  IF c.send_mode # "per_char"
  THEN [state |-> [st EXCEPT !.text = <<>>,
                             !.last_input_time =
                                IF c.send_mode = "idle_timeout"
                                THEN Some(t) ELSE @],
        payload |-> None]
  ELSE [state |-> st, payload |-> None]

\* _handle_key_down, KEY_BACKSPACE.
backspace_branch(st, c, t) ==
  IF c.send_mode # "per_char"
  THEN [state |-> [st EXCEPT !.text = DropLast(@),
                             !.last_input_time =
                                IF c.send_mode = "idle_timeout"
                                THEN Some(t) ELSE @],
        payload |-> None]
  ELSE [state |-> st, payload |-> None]

\* A mapped character that is sent in per_char mode and buffered as well.
mapped_always_buffered(mapped, st, c, t) ==
  IF Truthy(mapped)
  THEN [state |-> [st EXCEPT !.text = @ \o mapped[1],
                             !.last_input_time =
                                IF c.send_mode = "idle_timeout"
                                THEN Some(t) ELSE @],
        payload |-> IF c.send_mode = "per_char" THEN mapped ELSE None]
  ELSE [state |-> st, payload |-> None]

\* A mapped character that is buffered without a time stamp.
mapped_without_stamp(mapped, st, c, t) ==
  IF Truthy(mapped)
  THEN IF c.send_mode = "per_char"
       THEN [state |-> st, payload |-> mapped]
       ELSE [state |-> [st EXCEPT !.text = @ \o mapped[1]], payload |-> None]
  ELSE [state |-> st, payload |-> None]

\* _handle_key_down, the mapped character: sent in per_char mode, appended
\* to the buffer otherwise.
mapped_branch(mapped, st, c, t) ==
  IF Truthy(mapped)
  THEN IF c.send_mode = "per_char"
       THEN [state |-> st, payload |-> mapped]
       ELSE [state |-> [st EXCEPT !.text = @ \o mapped[1],
                                  !.last_input_time =
                                     IF c.send_mode = "idle_timeout"
                                     THEN Some(t) ELSE @],
             payload |-> None]
  ELSE [state |-> st, payload |-> None]

\* A handler whose terminator rule applies in every send mode.
terminator_any_mode(keycode, st, c, t) ==
  IF keycode \in SHIFT_KEYCODES
  THEN [state |-> [st EXCEPT !.shift_keys = @ \cup {keycode}], payload |-> None]
  ELSE IF keycode \in KANA_TOGGLE_KEYCODES
  THEN [state |-> [st EXCEPT !.kana_mode = ~@], payload |-> None]
  ELSE IF keycode \in c.terminator_keys
  THEN terminator_branch(st, c)
  ELSE IF keycode = "KEY_BACKSPACE"
  THEN backspace_branch(st, c, t)
  ELSE mapped_branch(map_keycode(keycode, shift_active(st), st.kana_mode),
                     st, c, t)

\* A handler that tests terminator_keys before every other rule.
terminator_first(keycode, st, c, t) ==
  IF keycode \in c.terminator_keys /\ c.send_mode = "on_enter"
  THEN terminator_branch(st, c)
  ELSE IF keycode \in SHIFT_KEYCODES
  THEN [state |-> [st EXCEPT !.shift_keys = @ \cup {keycode}], payload |-> None]
  ELSE IF keycode \in KANA_TOGGLE_KEYCODES
  THEN [state |-> [st EXCEPT !.kana_mode = ~@], payload |-> None]
  ELSE IF keycode = "KEY_BACKSPACE"
  THEN backspace_branch(st, c, t)
  ELSE mapped_branch(map_keycode(keycode, shift_active(st), st.kana_mode),
                     st, c, t)

\* Returns the new state and the payload to send (Optional[str]); t is
\* time.monotonic().
_handle_key_down(keycode, st, c, t) ==
  IF keycode \in SHIFT_KEYCODES
  THEN [state |-> [st EXCEPT !.shift_keys = @ \cup {keycode}], payload |-> None]
  ELSE IF keycode \in KANA_TOGGLE_KEYCODES
  THEN [state |-> [st EXCEPT !.kana_mode = ~@], payload |-> None]
  ELSE IF keycode \in c.terminator_keys /\ c.send_mode = "on_enter"
  THEN terminator_branch(st, c)
  ELSE IF keycode = "KEY_BACKSPACE"
  THEN backspace_branch(st, c, t)
  ELSE mapped_branch(map_keycode(keycode, shift_active(st), st.kana_mode),
                     st, c, t)

\* A key-up that disarms the idle timer.
key_up_unstamps(keycode, st) ==
  IF keycode \in SHIFT_KEYCODES
  THEN [st EXCEPT !.shift_keys = @ \ {keycode}, !.last_input_time = None]
  ELSE [st EXCEPT !.last_input_time = None]

\* A key-up that forgets every held shift key.
key_up_clears_shift(keycode, st) ==
  IF keycode \in SHIFT_KEYCODES
  THEN [st EXCEPT !.shift_keys = {}]
  ELSE st

_handle_key_up(keycode, st) ==
  IF keycode \in SHIFT_KEYCODES
  THEN [st EXCEPT !.shift_keys = @ \ {keycode}]
  ELSE st

\* A flush that waits for the timeout to be exceeded.
flush_after_timeout(st, line_end, idle_timeout_seconds, t) ==
  IF st.text = <<>> \/ st.last_input_time = None
  THEN [state |-> st, payload |-> None]
  ELSE IF t - st.last_input_time[1] <= idle_timeout_seconds
  THEN [state |-> st, payload |-> None]
  ELSE [state |-> _reset_buffer(st), payload |-> Some(st.text \o line_end)]

_maybe_flush_idle_timeout(st, line_end, idle_timeout_seconds, t) ==
  IF st.text = <<>> \/ st.last_input_time = None
  THEN [state |-> st, payload |-> None]
  ELSE IF t - st.last_input_time[1] < idle_timeout_seconds
  THEN [state |-> st, payload |-> None]
  ELSE [state |-> _reset_buffer(st), payload |-> Some(st.text \o line_end)]


(***************************************************************************)
(* Encoding and the serial port.                                           *)
(***************************************************************************)
IsAscii(ch) == ch \in {"a", "A", "CR", "LF"}

\* The code points of the ASCII characters, and the UTF-8 bytes of the kana.
Utf8(ch) ==
  CASE ch = "a" -> <<97>>
    [] ch = "A" -> <<65>>
    [] ch = "CR" -> <<13>>
    [] ch = "LF" -> <<10>>
    [] ch = "chi" -> <<227, 129, 161>>

RECURSIVE EncodeAscii(_, _)
\* str.encode("ascii", errors): [err, data]
EncodeAscii(payload, errors) ==
  IF payload = <<>> THEN [err |-> "none", data |-> <<>>]
  ELSE LET rest == EncodeAscii(Tail(payload), errors)
           ch == Head(payload)
       IN IF IsAscii(ch)
          THEN [rest EXCEPT !.data = Utf8(ch) \o @]
          ELSE IF errors = "strict"
          THEN [err |-> "UnicodeEncodeError", data |-> <<>>]
          ELSE IF errors = "ignore"
          THEN rest
          ELSE [rest EXCEPT !.data = <<63>> \o @]

RECURSIVE EncodeUtf8(_)
EncodeUtf8(payload) ==
  IF payload = <<>> THEN <<>> ELSE Utf8(Head(payload)) \o EncodeUtf8(Tail(payload))

\* [err, data]: err is "none", "PayloadEncodeError" (a character the codec
\* cannot encode, under strict) or "ValueError" (unknown codec label).
_encode_payload(payload, encoding, errors) ==
  IF encoding = "utf-8"
  THEN [err |-> "none", data |-> EncodeUtf8(payload)]
  ELSE IF encoding = "ascii"
  THEN LET r == EncodeAscii(payload, errors)
       IN IF r.err = "UnicodeEncodeError"
          THEN [err |-> "PayloadEncodeError", data |-> <<>>]
          ELSE r
  ELSE [err |-> "ValueError", data |-> <<>>]

\* Whether bits_per_frame / baudrate > 0 (bits_per_frame is at least 1 + 5 + 1).
FramePositive(c) == c.baudrate > 0

\* What port.write and port.flush raise: serial.SerialException, OSError,
\* or serial.SerialTimeoutException on a write timeout.
PortErrors == {"SerialException", "OSError", "SerialTimeoutException"}

PortOk == [failAt |-> 0, flushFails |-> FALSE, kind |-> "none"]

\* The port's answer to one send: its failAt-th write call raises kind (0:
\* none does), and flush raises kind when flushFails.
PortResps ==
  {PortOk}
  \cup [failAt : 1..MaxFailAt, flushFails : {FALSE}, kind : PortErrors]
  \cup [failAt : {0}, flushFails : {TRUE}, kind : PortErrors]

\* An except clause that lets OSError through.
CatchesSerialOnly == {"SerialException", "SerialTimeoutException"}

\* except (serial.SerialException, OSError, serial.SerialTimeoutException)
SendCatches == {"SerialException", "OSError", "SerialTimeoutException"}

\* The exception that leaves a send whose port call raised kind.
SendRaises(kind) ==
  IF kind \in SendCatches THEN "SerialConnectionError" ELSE kind

\* The result of a send: the exception that leaves it ("none" when it
\* returns), the arguments of the write calls the port accepted, and what
\* became of the payload.
SendResult(exc, writes, sent) == [exc |-> exc, writes |-> writes, sent |-> sent]

_send_payload(payload, c, resp) ==
  LET enc == _encode_payload(payload, c.encoding, c.encoding_errors)
  IN IF enc.err = "PayloadEncodeError"
     THEN SendResult("none", <<>>, "dropped")
     ELSE IF enc.err = "ValueError"
     THEN SendResult("ValueError", <<>>, "fatal")
     ELSE IF resp.failAt = 1
     THEN SendResult(SendRaises(resp.kind), <<>>, "failed")
     ELSE IF resp.flushFails
     THEN SendResult(SendRaises(resp.kind), <<enc.data>>, "failed")
     ELSE SendResult("none", <<enc.data>>, "written")

\* One write call per byte.
ByteWrites(data) == [i \in 1..Len(data) |-> <<data[i]>>]

_send_payload_with_timing(payload, c, resp) ==
  LET enc == _encode_payload(payload, c.encoding, c.encoding_errors)
  IN IF enc.err = "PayloadEncodeError"
     THEN SendResult("none", <<>>, "dropped")
     ELSE IF enc.err = "ValueError"
     THEN SendResult("ValueError", <<>>, "fatal")
     ELSE IF enc.data = <<>>
     THEN SendResult("none", <<>>, "empty")
     ELSE IF ~FramePositive(c)
     THEN _send_payload(payload, c, resp)
     ELSE IF resp.failAt \in 1..Len(enc.data)
     THEN SendResult(SendRaises(resp.kind),
                     SubSeq(ByteWrites(enc.data), 1, resp.failAt - 1), "failed")
     ELSE IF resp.flushFails
     THEN SendResult(SendRaises(resp.kind), ByteWrites(enc.data), "failed")
     ELSE SendResult("none", ByteWrites(enc.data), "written")

\* A window that excludes its last instant.
suppress_inside_window(st, payload, dedup_window_seconds, t) ==
  IF dedup_window_seconds <= 0 THEN FALSE
  ELSE IF st.last_sent_payload = None \/ st.last_sent_time = None THEN FALSE
  ELSE IF payload # st.last_sent_payload[1] THEN FALSE
  ELSE t - st.last_sent_time[1] < dedup_window_seconds

\* A window of zero that still suppresses at the same instant.
suppress_at_zero_window(st, payload, dedup_window_seconds, t) ==
  IF st.last_sent_payload = None \/ st.last_sent_time = None THEN FALSE
  ELSE IF payload # st.last_sent_payload[1] THEN FALSE
  ELSE t - st.last_sent_time[1] <= dedup_window_seconds

_should_suppress_duplicate(st, payload, dedup_window_seconds, t) ==
  IF dedup_window_seconds <= 0 THEN FALSE
  ELSE IF st.last_sent_payload = None \/ st.last_sent_time = None THEN FALSE
  ELSE IF payload # st.last_sent_payload[1] THEN FALSE
  ELSE t - st.last_sent_time[1] <= dedup_window_seconds

\* [state, exc, writes, sent]
_send_payload_with_dedup(payload, st, c, t, resp) ==
  IF c.send_mode # "per_char"
     /\ _should_suppress_duplicate(st, payload, c.dedup_window_seconds, t)
  THEN [state |-> st] @@ SendResult("none", <<>>, "suppressed")
  ELSE LET r == IF c.emulate_timing
                THEN _send_payload_with_timing(payload, c, resp)
                ELSE _send_payload(payload, c, resp)
       IN IF r.exc # "none"
          THEN [state |-> st] @@ r
          ELSE [state |-> [st EXCEPT !.last_sent_payload = Some(payload),
                                     !.last_sent_time = Some(t)]] @@ r

_send_payload_if_present(payload, st, c, t, resp) ==
  IF payload = None
  THEN [state |-> st] @@ SendResult("none", <<>>, "none")
  ELSE _send_payload_with_dedup(payload[1], st, c, t, resp)

\* The input events of a device with the given keys: [type, keycode,
\* keystate], keystate being key_down, key_up or key_hold (auto-repeat).
\* Key-up and hold events of the keys that are not shift-like are told apart
\* by no code, KEY_A stands for them.
Events(keys) ==
  [type : {"EV_KEY"}, keycode : keys, keystate : {"down"}]
  \cup [type : {"EV_KEY"}, keycode : keys \cap (SHIFT_KEYCODES \cup {"KEY_A"}),
        keystate : {"up"}]
  \cup [type : {"EV_KEY"}, keycode : keys \cap {"KEY_A"}, keystate : {"hold"}]
  \cup {[type |-> "EV_SYN", keycode |-> "KEY_A", keystate |-> "up"]}

\* [state, payload, exc, writes, sent]: payload is what the decoder emitted.
_process_key_event(event, st, c, t, resp) ==
  IF event.type # "EV_KEY"
  THEN [state |-> st, payload |-> None] @@ SendResult("none", <<>>, "none")
  ELSE IF event.keystate = "down"
  THEN LET d == _handle_key_down(event.keycode, st, c, t)
       IN [payload |-> d.payload]
          @@ _send_payload_if_present(d.payload, d.state, c, t, resp)
  ELSE IF event.keystate = "up"
  THEN [state |-> _handle_key_up(event.keycode, st), payload |-> None]
       @@ SendResult("none", <<>>, "none")
  ELSE [state |-> st, payload |-> None] @@ SendResult("none", <<>>, "none")


(***************************************************************************)
(* Configurations and input devices.  cfg holds the AppConfig fields the   *)
(* pipeline reads and "keys", the keycodes the attached device can send.   *)
(* The configurations vary the settings around the default one arm at a    *)
(* time: the send trigger of each mode, the codec and pacing of the sink,  *)
(* and the supervisor's settings.                                          *)
(***************************************************************************)
PlainKeys == {"KEY_A", "KEY_ENTER", "KEY_BACKSPACE", "KEY_KATAKANAHIRAGANA"}

ShiftKeys ==
  {"KEY_A", "KEY_ENTER", "KEY_BACKSPACE", "KEY_KATAKANAHIRAGANA",
   "KEY_LEFTSHIFT", "KEY_UNKNOWN"}

\* A scanner that types one character under either case and ends with Enter.
ScannerKeys == {"KEY_A", "KEY_ENTER", "KEY_LEFTSHIFT"}

\* A device whose characters include one outside ASCII.
KanaKeys == {"KEY_A", "KEY_ENTER", "KEY_KATAKANAHIRAGANA"}

DefaultConfig ==
  [send_mode |-> "on_enter", send_on_enter |-> TRUE,
   terminator_keys |-> {"KEY_ENTER"}, line_end |-> <<"CR", "LF">>,
   idle_timeout_seconds |-> 1, dedup_window_seconds |-> 0,
   encoding |-> "utf-8", encoding_errors |-> "strict",
   emulate_timing |-> FALSE, baudrate |-> 9600,
   grab |-> FALSE, reconnect_interval_seconds |-> 0,
   port |-> "/dev/ttyUSB0", pty_link |-> FALSE,
   keys |-> PlainKeys]

SendModes == {"on_enter", "per_char", "idle_timeout"}

TerminatorSets ==
  {{"KEY_ENTER"},
   {"KEY_ENTER", "KEY_BACKSPACE", "KEY_LEFTSHIFT", "KEY_KATAKANAHIRAGANA"}}

\* The send trigger of each mode: on_enter on a device with a shift key,
\* per_char on a device with every key, and in idle_timeout mode each
\* timeout on the plain device and the default one on a scanner.
TriggerConfigs ==
  {[DefaultConfig EXCEPT !.keys = ShiftKeys, !.send_on_enter = soe,
                         !.terminator_keys = tk]
     : soe \in BOOLEAN, tk \in TerminatorSets}
  \cup {[DefaultConfig EXCEPT !.keys = Keycodes, !.send_mode = "per_char"]}
  \cup {[DefaultConfig EXCEPT !.send_mode = "idle_timeout",
                              !.idle_timeout_seconds = it]
     : it \in {0, 1, 2}}
  \cup {[DefaultConfig EXCEPT !.send_mode = "idle_timeout",
                              !.keys = ScannerKeys]}

\* <<encoding, encoding_errors, line_end, emulate_timing>>
Sinks ==
  {<<"utf-8", "strict", <<"CR", "LF">>, FALSE>>,
   <<"utf-8", "strict", <<"CR", "LF">>, TRUE>>,
   <<"utf-8", "strict", <<>>, FALSE>>,
   <<"ascii", "strict", <<"CR", "LF">>, FALSE>>,
   <<"ascii", "strict", <<"CR", "LF">>, TRUE>>,
   <<"ascii", "ignore", <<>>, FALSE>>,
   <<"ascii", "ignore", <<>>, TRUE>>,
   <<"bogus", "strict", <<"CR", "LF">>, FALSE>>}

\* The sink's codec, line end and pacing in each mode, with a dedup window.
SinkConfigs ==
  {[DefaultConfig EXCEPT !.send_mode = sm, !.dedup_window_seconds = 1,
                         !.keys = KanaKeys, !.encoding = sk[1], !.encoding_errors = sk[2],
                         !.line_end = sk[3], !.emulate_timing = sk[4]]
     : sm \in SendModes, sk \in Sinks}

\* The supervisor's settings in each mode, with a codec that works and with
\* an unknown codec label (whose ValueError is no reconnect-eligible error).
SupervisorConfigs ==
  {[DefaultConfig EXCEPT !.send_mode = sm, !.grab = g,
                         !.keys = {"KEY_A", "KEY_ENTER"},
                         !.reconnect_interval_seconds = ri, !.encoding = en]
     : sm \in SendModes, g \in BOOLEAN, ri \in {0, 1},
       en \in {"utf-8", "bogus"}}

\* The virtual sink (serial.port = auto) in each mode, without and with a
\* pty_link, under a supervisor that gives up and under one that reconnects.
PtyConfigs ==
  {[DefaultConfig EXCEPT !.send_mode = sm, !.port = "auto", !.pty_link = pl,
                         !.keys = {"KEY_A", "KEY_ENTER"},
                         !.reconnect_interval_seconds = IF pl THEN 1 ELSE 0]
     : sm \in SendModes, pl \in BOOLEAN}

Configs ==
  TriggerConfigs \cup SinkConfigs \cup SupervisorConfigs \cup PtyConfigs

(***************************************************************************)
(* The program state.                                                      *)
(***************************************************************************)
VARIABLES
  cfg,        \* the AppConfig run_event_loop was called with
  pc,         \* where run_event_loop is: "open", "grab", "serve", "serving",
              \* "except", "finally", "returned", "raised"
  exc,        \* the exception in flight ("none"; "return" while returning)
  device,     \* the local variable device: None or the handle's number
  opened,     \* input device handles opened so far
  closed,     \* close calls made on input device handles so far
  attempts,   \* iterations of the supervisor loop started so far
  failures,   \* attempts that raised a reconnect-eligible error so far
  sleeps,     \* the arguments of the time.sleep calls so far
  sink,       \* the serial sink of the attempt: "closed" or "open"
  loop,       \* in the idle-timeout loop: "top", or "batch" while the
              \* events of one device.read() are dispatched
  state,      \* the BufferState of the running event loop
  now,        \* time.monotonic()
  quiet,      \* the input device delivers no further events
  last,       \* what the last step did: [op, payload, writes, sent]
  res,        \* the resources of the attempt's SerialPortHandle
  emitted,    \* the latest emission of this attempt: None or [payload, time]
  held,       \* keys: the shift-like keys whose last event in this
              \* attempt's stream was a key-down; released_from: those
              \* held just before, when the last event released one
  bridge,     \* a VirtualPtyBridge, its worker thread and the two PTYs
  scan,       \* one call of open_input_device: its input and result
  paced,      \* one byte-paced send: its position, clock and port calls
  cli,        \* one run of cli.main: the platform, the configuration file,
              \* what the event loop meets, and the exit of main
  link,       \* one virtual serial port with pty_link: the link path's
              \* state, the created resources, and their teardown
  opening     \* one call of _open_serial_port: where it fails, the fds,
              \* bridge, symlink and port it holds, and how it ends

vars ==
  <<cfg, pc, exc, device, opened, closed, attempts, failures, sleeps, sink,
    loop, state, now, quiet, last, res, held, emitted, bridge, scan,
    paced, cli, link, opening>>

\* The variables run_event_loop does not touch.
aside == <<bridge, scan, paced, cli, link, opening>>

\* The variables of run_event_loop.
supervisor ==
  <<cfg, pc, exc, device, opened, closed, attempts, failures, sleeps, sink,
    loop, state, now, quiet, last, res, held, emitted>>

\* No bridge has been constructed and open_input_device is not being called.
NoBridge == [pc |-> "none"]
NoScan == [pc |-> "none"]
NoPaced == [pc |-> "none"]
NoCli == [pc |-> "none"]
NoLink == [pc |-> "none"]
NoOpening == [pc |-> "none"]

(***************************************************************************)
(* The serial sink's resources: the port, and for serial.port = auto the   *)
(* bridge, its two master fds and the symlink.  released lists the release *)
(* calls in the order they were made.                                      *)
(***************************************************************************)
NoSink ==
  [port |-> "none", bridge |-> "none", masters |-> {}, link |-> "none",
   released |-> <<>>]

\* What a successful _open_serial_port holds: serial.Serial on the port, or
\* on the app-side slave of a virtual PTY whose bridge runs.
OpenedSink(c) ==
  IF c.port = "auto"
  THEN [port |-> "open", bridge |-> "running",
        masters |-> {"master_a", "master_b"},
        link |-> IF c.pty_link THEN "created" ELSE "none",
        released |-> <<>>]
  ELSE [NoSink EXCEPT !.port = "open"]

\* VirtualPtyBridge.close: set the stop flag, close both masters, join.
VirtualPtyBridge_close(r) ==
  [r EXCEPT !.bridge = "stopped", !.masters = {},
            !.released = @ \o <<"stop", "close master_a", "close master_b",
                                "join">>]

\* VirtualPtyResources.close: close the bridge, then unlink the symlink
\* this instance created.
VirtualPtyResources_close(r) ==
  LET b == VirtualPtyBridge_close(r)
  IN IF b.link = "created"
     THEN [b EXCEPT !.link = "removed", !.released = Append(@, "unlink")]
     ELSE b

\* An exit that closes the port and forgets the resources.
exit_closes_port_only(r) ==
  [r EXCEPT !.port = "closed", !.released = Append(@, "port.close")]

\* SerialPortHandle.__exit__: close the resources if there are any, then
\* the port.
SerialPortHandle_exit(r) ==
  LET x == IF r.bridge # "none" THEN VirtualPtyResources_close(r) ELSE r
  IN [x EXCEPT !.port = "closed", !.released = Append(@, "port.close")]

\* The latest emission after a step of the loop made at time t: the payload
\* the step handed to the dedup layer, if it did.
EmittedAfter(r, t, em) ==
  IF r.payload = None THEN em
  ELSE Some([payload |-> r.payload[1], time |-> t])

\* No event yet: no key is held.
NoneHeld == [keys |-> {}, released_from |-> {}]

\* The shift-like keys held after an event, given those held before it.
HeldAfter(event, h) ==
  IF event.type = "EV_KEY" /\ event.keycode \in SHIFT_KEYCODES
  THEN IF event.keystate = "down"
       THEN [keys |-> h.keys \cup {event.keycode}, released_from |-> {}]
       ELSE IF event.keystate = "up"
       THEN [keys |-> h.keys \ {event.keycode},
             released_from |-> IF event.keycode \in h.keys THEN h.keys ELSE {}]
       ELSE [h EXCEPT !.released_from = {}]
  ELSE [h EXCEPT !.released_from = {}]

Did(op) == [op |-> op, payload |-> None, writes |-> <<>>, sent |-> "none"]

\* An except clause that also catches ValueError.
EligibleWithValueError ==
  {"DeviceNotFoundError", "DeviceAccessError", "SerialConnectionError",
   "ValueError"}

ReconnectEligible ==
  {"DeviceNotFoundError", "DeviceAccessError", "SerialConnectionError"}

\* run_event_loop is entered with one of the given configurations.
Start(configs) ==
  /\ cfg \in configs
  /\ pc = "open"
  /\ exc = "none"
  /\ device = None
  /\ opened = 0
  /\ closed = 0
  /\ attempts = 0
  /\ failures = 0
  /\ sleeps = <<>>
  /\ sink = "closed"
  /\ loop = "top"
  /\ state = BufferState
  /\ now = 0
  /\ quiet = FALSE
  /\ last = Did("init")
  /\ res = NoSink
  /\ held = NoneHeld
  /\ emitted = None

Init ==
  Start(Configs) /\ bridge = NoBridge /\ scan = NoScan /\ paced = NoPaced
  /\ cli = NoCli /\ link = NoLink /\ opening = NoOpening

\* An exception leaves the try block: the except clause runs next.
Raise(e) ==
  /\ exc' = e
  /\ pc' = "except"
  /\ failures' = IF e \in ReconnectEligible THEN failures + 1 ELSE failures

(***************************************************************************)
(* run_event_loop                                                          *)
(***************************************************************************)
\* device = None; device = open_input_device(config.input)
OpenInputDevice ==
  /\ pc = "open"
  /\ attempts < MaxAttempts
  /\ attempts' = attempts + 1
  /\ last' = Did("open")
  /\ \/ /\ device' = Some(opened + 1)
        /\ opened' = opened + 1
        /\ pc' = IF cfg.grab THEN "grab" ELSE "serve"
        /\ UNCHANGED <<exc, failures>>
     \/ /\ \E e \in {"DeviceNotFoundError", "DeviceAccessError"} : Raise(e)
        /\ UNCHANGED <<device, opened>>
  /\ UNCHANGED <<cfg, closed, sleeps, sink, loop, state, now, quiet, res, held>>
  /\ UNCHANGED emitted
  /\ UNCHANGED aside

\* device.grab()
Grab ==
  /\ pc = "grab"
  /\ last' = Did("grab")
  /\ \/ pc' = "serve" /\ UNCHANGED <<exc, failures>>
     \/ Raise("DeviceAccessError")
  /\ UNCHANGED <<cfg, device, opened, closed, attempts, sleeps, sink, loop,
                 state, now, quiet, res, held>>
  /\ UNCHANGED emitted
  /\ UNCHANGED aside

\* The head of both event loops: state = BufferState() and
\* with _open_serial_port(config) as port; the default loop also starts
\* device.read_loop(), and leaves the with block when that fails.
EnterEventLoop ==
  /\ pc = "serve"
  /\ last' = Did("serve")
  /\ state' = BufferState
  /\ loop' = "top"
  /\ held' = NoneHeld
  /\ emitted' = None
  /\ \/ /\ sink' = "open"
        /\ res' = OpenedSink(cfg)
        /\ pc' = "serving"
        /\ UNCHANGED <<exc, failures>>
     \/ /\ Raise("SerialConnectionError")
        /\ res' = NoSink
        /\ UNCHANGED sink
     \/ /\ cfg.send_mode # "idle_timeout"
        /\ Raise("DeviceAccessError")
        /\ res' = SerialPortHandle_exit(OpenedSink(cfg))
        /\ UNCHANGED sink
  /\ UNCHANGED <<cfg, device, opened, closed, attempts, sleeps, now, quiet>>
  /\ UNCHANGED aside


\* An event loop is left: the with block tears the sink down, and the
\* loop's BufferState is gone with its frame.
LeaveLoop ==
  /\ sink' = "closed"
  /\ res' = SerialPortHandle_exit(res)
  /\ state' = BufferState
  /\ held' = NoneHeld
  /\ emitted' = None
  /\ loop' = "top"

\* The port answers only a step that reaches it: r is the step's result
\* with a port that works. A failure set for a write call the step never
\* makes is the port that works.
RespsFor(r) ==
  IF r.sent \in {"written"}
  THEN {resp \in PortResps : resp.failAt <= Len(r.writes)}
  ELSE {PortOk}

\* What a step of an event loop leaves behind: the buffer state, the record
\* of the step and, when an exception left the loop, the sink torn down by
\* the with block and the exception on its way to the supervisor.
LoopStep(op, r) ==
  /\ state' = r.state
  /\ last' = [op |-> op, payload |-> r.payload, writes |-> r.writes,
              sent |-> r.sent]
  /\ IF r.exc = "none"
     THEN UNCHANGED <<pc, exc, failures, sink, res>>
     ELSE Raise(r.exc) /\ sink' = "closed" /\ res' = SerialPortHandle_exit(res)

\* The input device has an event to deliver (the clock bound is the horizon
\* within which input is observed).
InputArrives == ~quiet /\ now <= MaxTime

(***************************************************************************)
(* _run_event_loop_default                                                 *)
(***************************************************************************)
\* for event in event_iterator: _process_key_event(event, ...)
DefaultDispatch ==
  /\ pc = "serving"
  /\ cfg.send_mode # "idle_timeout"
  /\ InputArrives
  /\ \E event \in Events(cfg.keys) :
       \E resp \in RespsFor(_process_key_event(event, state, cfg, now, PortOk)) :
         LET r == _process_key_event(event, state, cfg, now, resp)
         IN /\ Len(r.state.text) <= MaxText
            /\ LoopStep("key_" \o event.keystate, r)
            /\ held' = HeldAfter(event, held)
            /\ emitted' = EmittedAfter(r, now, emitted)
  /\ UNCHANGED <<cfg, device, opened, closed, attempts, sleeps, loop, now,
                 quiet>>
  /\ UNCHANGED aside

\* The iterator raises OSError.
DefaultReadError ==
  /\ pc = "serving"
  /\ cfg.send_mode # "idle_timeout"
  /\ last' = Did("read_error")
  /\ LeaveLoop
  /\ Raise("DeviceAccessError")
  /\ UNCHANGED <<cfg, device, opened, closed, attempts, sleeps, now, quiet>>
  /\ UNCHANGED aside

\* The iterator is exhausted: the loop ends and run_event_loop returns.
DefaultLoopEnds ==
  /\ pc = "serving"
  /\ cfg.send_mode # "idle_timeout"
  /\ last' = Did("loop_end")
  /\ LeaveLoop
  /\ exc' = "return"
  /\ pc' = "finally"
  /\ UNCHANGED <<cfg, device, opened, closed, attempts, failures, sleeps, now,
                 quiet>>
  /\ UNCHANGED aside

(***************************************************************************)
(* _run_event_loop_idle_timeout                                            *)
(***************************************************************************)
AtIdleTop == pc = "serving" /\ cfg.send_mode = "idle_timeout" /\ loop = "top"

\* A loop that arms the timeout on the time stamp alone.
armed_by_stamp(st) == st.last_input_time # None

\* if state.text and state.last_input_time is not None
Armed(st) == st.text # <<>> /\ st.last_input_time # None

\* remaining = idle_timeout_seconds - (now - last_input_time)
Remaining(st, c, t) == c.idle_timeout_seconds - (t - st.last_input_time[1])

\* _maybe_flush_idle_timeout, then _send_payload_if_present.
FlushAndSend(st, c, t, resp) ==
  LET f == _maybe_flush_idle_timeout(st, c.line_end, c.idle_timeout_seconds, t)
  IN [payload |-> f.payload]
     @@ _send_payload_if_present(f.payload, f.state, c, t, resp)

\* remaining <= 0: flush before waiting for input, and continue.
IdleFlushExpired ==
  /\ AtIdleTop
  /\ Armed(state)
  /\ Remaining(state, cfg, now) <= 0
  /\ \E resp \in RespsFor(FlushAndSend(state, cfg, now, PortOk)) :
       /\ LoopStep("flush", FlushAndSend(state, cfg, now, resp))
       /\ emitted' = EmittedAfter(FlushAndSend(state, cfg, now, resp), now,
                                  emitted)
  /\ UNCHANGED <<cfg, device, opened, closed, attempts, sleeps, loop, now,
                 quiet, held>>
  /\ UNCHANGED aside

\* select returns nothing readable after the timeout: flush at the new time.
IdleSelectTimeout ==
  /\ AtIdleTop
  /\ Armed(state)
  /\ Remaining(state, cfg, now) > 0
  /\ now' = now + Remaining(state, cfg, now)
  /\ \E resp \in RespsFor(FlushAndSend(state, cfg, now', PortOk)) :
       /\ LoopStep("timeout", FlushAndSend(state, cfg, now', resp))
       /\ emitted' = EmittedAfter(FlushAndSend(state, cfg, now', resp), now',
                                  emitted)
  /\ UNCHANGED <<cfg, device, opened, closed, attempts, sleeps, loop, quiet,
                 held>>
  /\ UNCHANGED aside

\* The loop reaches select: nothing is due yet.
AtSelect == AtIdleTop /\ ~(Armed(state) /\ Remaining(state, cfg, now) <= 0)

\* select reports the device readable and device.read() returns a batch, or
\* raises OSError.
IdleSelectReadable ==
  /\ AtSelect
  /\ InputArrives
  /\ last' = Did("read")
  /\ \/ loop' = "batch" /\ UNCHANGED <<pc, exc, failures, sink, state, res, held, emitted>>
     \/ Raise("DeviceAccessError") /\ LeaveLoop
  /\ UNCHANGED <<cfg, device, opened, closed, attempts, sleeps, now, quiet>>
  /\ UNCHANGED aside

\* select raises OSError.
IdleSelectError ==
  /\ AtSelect
  /\ ~quiet
  /\ last' = Did("select_error")
  /\ LeaveLoop
  /\ Raise("DeviceAccessError")
  /\ UNCHANGED <<cfg, device, opened, closed, attempts, sleeps, now, quiet>>
  /\ UNCHANGED aside

\* for event in events: _process_key_event(event, ...); the batch goes on or
\* ends with this event.
IdleDispatch ==
  /\ pc = "serving"
  /\ cfg.send_mode = "idle_timeout"
  /\ loop = "batch"
  /\ \E event \in Events(cfg.keys) :
       \E resp \in RespsFor(_process_key_event(event, state, cfg, now, PortOk)) :
         LET r == _process_key_event(event, state, cfg, now, resp)
         IN /\ Len(r.state.text) <= MaxText
            /\ LoopStep("key_" \o event.keystate, r)
            /\ held' = HeldAfter(event, held)
            /\ emitted' = EmittedAfter(r, now, emitted)
  /\ \E more \in BOOLEAN : loop' = IF more THEN "batch" ELSE "top"
  /\ UNCHANGED <<cfg, device, opened, closed, attempts, sleeps, now, quiet>>
  /\ UNCHANGED aside

(***************************************************************************)
(* run_event_loop: except and finally                                      *)
(***************************************************************************)
\* A handler that catches every exception.
ExceptAny ==
  /\ pc = "except"
  /\ pc' = "finally"
  /\ IF ~(cfg.reconnect_interval_seconds <= 0)
     THEN /\ sleeps' = Append(sleeps, cfg.reconnect_interval_seconds)
          /\ now' = now + cfg.reconnect_interval_seconds
          /\ exc' = "none"
          /\ last' = Did("sleep")
     ELSE /\ UNCHANGED <<sleeps, now, exc>>
          /\ last' = Did("propagate")
  /\ state' = BufferState
  /\ held' = NoneHeld
  /\ emitted' = None
  /\ loop' = "top"
  /\ UNCHANGED <<cfg, device, opened, closed, attempts, failures, sink, quiet,
                 res>>
  /\ UNCHANGED aside

\* A handler that re-raises only below a zero interval.
ExceptRetriesAtZero ==
  /\ pc = "except"
  /\ pc' = "finally"
  /\ IF exc \in ReconnectEligible /\ ~(cfg.reconnect_interval_seconds < 0)
     THEN /\ sleeps' = Append(sleeps, cfg.reconnect_interval_seconds)
          /\ now' = now + cfg.reconnect_interval_seconds
          /\ exc' = "none"
          /\ last' = Did("sleep")
     ELSE /\ UNCHANGED <<sleeps, now, exc>>
          /\ last' = Did("propagate")
  /\ state' = BufferState
  /\ held' = NoneHeld
  /\ emitted' = None
  /\ loop' = "top"
  /\ UNCHANGED <<cfg, device, opened, closed, attempts, failures, sink, quiet,
                 res>>
  /\ UNCHANGED aside

\* except (DeviceNotFoundError, DeviceAccessError, SerialConnectionError):
\* re-raise when reconnect is disabled, otherwise sleep; any other exception
\* is not caught.
Except ==
  /\ pc = "except"
  /\ pc' = "finally"
  /\ IF exc \in ReconnectEligible /\ ~(cfg.reconnect_interval_seconds <= 0)
     THEN /\ sleeps' = Append(sleeps, cfg.reconnect_interval_seconds)
          /\ now' = now + cfg.reconnect_interval_seconds
          /\ exc' = "none"
          /\ last' = Did("sleep")
     ELSE /\ UNCHANGED <<sleeps, now, exc>>
          /\ last' = Did("propagate")
  /\ state' = BufferState
  /\ held' = NoneHeld
  /\ emitted' = None
  /\ loop' = "top"
  /\ UNCHANGED <<cfg, device, opened, closed, attempts, failures, sink, quiet,
                 res>>
  /\ UNCHANGED aside

\* A cleanup that closes the device only when a retry follows.
FinallyOnRetry ==
  /\ pc = "finally"
  /\ IF device # None /\ exc = "none"
     THEN closed' = closed + 1 /\ last' = Did("close")
     ELSE UNCHANGED closed /\ last' = Did("no_close")
  /\ device' = None
  /\ pc' = CASE exc = "none" -> "open"
             [] exc = "return" -> "returned"
             [] OTHER -> "raised"
  /\ UNCHANGED <<cfg, exc, opened, attempts, failures, sleeps, sink, loop,
                 state, now, quiet, res, held>>
  /\ UNCHANGED emitted
  /\ UNCHANGED aside

\* finally: if device is not None: _close_input_device(device); then the
\* next iteration, the return or the exception.
Finally ==
  /\ pc = "finally"
  /\ IF device # None
     THEN closed' = closed + 1 /\ last' = Did("close")
     ELSE UNCHANGED closed /\ last' = Did("no_close")
  /\ device' = None
  /\ pc' = CASE exc = "none" -> "open"
             [] exc = "return" -> "returned"
             [] OTHER -> "raised"
  /\ UNCHANGED <<cfg, exc, opened, attempts, failures, sleeps, sink, loop,
                 state, now, quiet, res, held>>
  /\ UNCHANGED emitted
  /\ UNCHANGED aside

\* The configuration compares clock readings: the idle timeout, or a
\* dedup window.  Otherwise readings are stored and never read.
ReadsClock(c) ==
  \/ c.send_mode = "idle_timeout"
  \/ c.send_mode # "per_char" /\ c.dedup_window_seconds > 0

\* The monotonic clock advances while an event loop that reads it runs.
Tick ==
  /\ pc = "serving"
  /\ ReadsClock(cfg)
  /\ now < MaxTime
  /\ now' = now + 1
  /\ UNCHANGED <<cfg, pc, exc, device, opened, closed, attempts, failures,
                 sleeps, sink, loop, state, quiet, last, res, held>>
  /\ UNCHANGED emitted
  /\ UNCHANGED aside

Next ==
  \/ OpenInputDevice
  \/ Grab
  \/ EnterEventLoop
  \/ DefaultDispatch
  \/ DefaultReadError
  \/ DefaultLoopEnds
  \/ IdleFlushExpired
  \/ IdleSelectTimeout
  \/ IdleSelectReadable
  \/ IdleSelectError
  \/ IdleDispatch
  \/ Except
  \/ Finally
  \/ Tick

Spec == Init /\ [][Next]_vars


(***************************************************************************)
(* The idle-timeout loop once the input device has gone silent.            *)
(***************************************************************************)
\* From now on the device delivers no event and no error.
InputCeases ==
  /\ AtIdleTop
  /\ ~quiet
  /\ quiet' = TRUE
  /\ UNCHANGED <<cfg, pc, exc, device, opened, closed, attempts, failures,
                 sleeps, sink, loop, state, now, last, res, held>>
  /\ UNCHANGED emitted
  /\ UNCHANGED aside

\* The idle-timeout configurations: each timeout on a device that types and
\* deletes characters, under a supervisor that gives up and under one that
\* grabs the device and reconnects.
IdleConfigs ==
  {[DefaultConfig EXCEPT !.send_mode = "idle_timeout",
                         !.keys = {"KEY_A", "KEY_BACKSPACE"},
                         !.idle_timeout_seconds = it,
                         !.grab = (ri = 1),
                         !.reconnect_interval_seconds = ri]
     : it \in {0, 1, 2}, ri \in {0, 1}}

InitIdle ==
  Start(IdleConfigs) /\ bridge = NoBridge /\ scan = NoScan /\ paced = NoPaced
  /\ cli = NoCli /\ link = NoLink /\ opening = NoOpening

NextIdle ==
  \/ OpenInputDevice
  \/ Grab
  \/ EnterEventLoop
  \/ IdleFlushExpired
  \/ IdleSelectTimeout
  \/ IdleSelectReadable
  \/ IdleSelectError
  \/ IdleDispatch
  \/ Except
  \/ Finally
  \/ Tick
  \/ InputCeases

\* The main thread runs the loop: an iteration whose flush is due is
\* executed, and a select with a timeout returns when the timeout elapses.
FairSpec ==
  /\ InitIdle
  /\ [][NextIdle]_vars
  /\ WF_vars(IdleFlushExpired)
  /\ WF_vars(IdleSelectTimeout)

(***************************************************************************)
(* VirtualPtyBridge: the worker thread that copies between the two PTY     *)
(* masters, and close() called from the thread that owns the sink.         *)
(***************************************************************************)
\* The most bytes a peer has queued on one master.
MaxBridgeBytes == 2

\* os.read(fd, 1024)
ReadSize == 1024

Masters == {"a", "b"}

\* target = self._master_b if fd == self._master_a else self._master_a
Target(fd) == IF fd = "a" THEN "b" ELSE "a"

\* What the peers have queued on the masters: distinct bytes per direction.
BridgeInputs(base) == {[i \in 1..n |-> base + i] : n \in 0..MaxBridgeBytes}

\* VirtualPtyBridge(master_a, master_b) after start(): the worker is at the
\* top of its loop.  rd and wr are what it has read from and written to
\* each master; raised says whether a call of the worker raised OSError;
\* stop_at is where the worker was when close() set the stop flag.
StartedBridge(ia, ib) ==
  [pc |-> "top", stop |-> FALSE, open |-> Masters, close_pc |-> "none",
   inq |-> [a |-> ia, b |-> ib],
   rd |-> [a |-> <<>>, b |-> <<>>], wr |-> [a |-> <<>>, b |-> <<>>],
   readable |-> <<>>, fd |-> "none", data |-> <<>>, short |-> FALSE,
   raised |-> FALSE, stop_at |-> "none"]

\* A loop that never looks at the stop flag.
while_true(b) == [b EXCEPT !.pc = "select"]

\* while not self._stop_event.is_set()
while_not_stopped(b) ==
  IF b.stop THEN [b EXCEPT !.pc = "done"] ELSE [b EXCEPT !.pc = "select"]

WorkerTop ==
  /\ bridge.pc = "top"
  /\ bridge' = while_not_stopped(bridge)
  /\ UNCHANGED <<supervisor, scan, paced, cli, link, opening>>

\* The masters select reports: those with queued bytes, in list order.
ReadableNow(b) ==
  LET ra == IF b.inq.a # <<>> THEN <<"a">> ELSE <<>>
      rb == IF b.inq.b # <<>> THEN <<"b">> ELSE <<>>
  IN ra \o rb

\* select.select([master_a, master_b], [], [], 0.5) returns: with the
\* readable masters, or empty after the timeout; on a closed fd it raises
\* OSError, or returns empty for whatever the fd numbers name by now.
WorkerSelect ==
  /\ bridge.pc = "select"
  /\ \/ /\ bridge.open = Masters
        /\ bridge' = [bridge EXCEPT !.readable = ReadableNow(bridge),
                                    !.pc = "for"]
     \/ /\ bridge.open # Masters
        /\ \/ bridge' = [bridge EXCEPT !.raised = TRUE,
                           !.pc = IF bridge.stop THEN "done" ELSE "top"]
           \/ bridge' = [bridge EXCEPT !.readable = <<>>, !.pc = "for"]
  /\ UNCHANGED <<supervisor, scan, paced, cli, link, opening>>

\* for fd in readable
WorkerFor ==
  /\ bridge.pc = "for"
  /\ bridge' = IF bridge.readable = <<>>
               THEN [bridge EXCEPT !.pc = "top"]
               ELSE [bridge EXCEPT !.fd = Head(bridge.readable),
                                   !.readable = Tail(bridge.readable),
                                   !.pc = "read"]
  /\ UNCHANGED <<supervisor, scan, paced, cli, link, opening>>

\* data = os.read(fd, 1024): some of the queued bytes, at most ReadSize;
\* OSError and empty data go on with the next fd.
WorkerRead ==
  /\ bridge.pc = "read"
  /\ LET fd == bridge.fd
         q == bridge.inq[fd]
     IN \/ /\ fd \in bridge.open /\ q # <<>>
           /\ \E n \in 1..Len(q) :
                /\ n <= ReadSize
                /\ bridge' = [bridge EXCEPT
                                !.data = SubSeq(q, 1, n),
                                !.inq[fd] = SubSeq(q, n + 1, Len(q)),
                                !.rd[fd] = @ \o SubSeq(q, 1, n),
                                !.pc = "write"]
        \/ /\ fd \notin bridge.open \/ q = <<>>
           /\ bridge' = [bridge EXCEPT !.raised = (fd \notin bridge.open),
                                       !.pc = "for"]
  /\ UNCHANGED <<supervisor, scan, paced, cli, link, opening>>

\* os.write(target, data): the target accepts all of data, or the first n
\* bytes of it (the return value is not looked at), or the call raises
\* OSError, which is logged.
WorkerWrite ==
  /\ bridge.pc = "write"
  /\ LET target == Target(bridge.fd)
     IN \/ /\ target \in bridge.open
           /\ \E n \in 1..Len(bridge.data) :
                bridge' = [bridge EXCEPT
                             !.wr[target] = @ \o SubSeq(bridge.data, 1, n),
                             !.short = @ \/ n < Len(bridge.data),
                             !.data = <<>>, !.pc = "for"]
        \/ bridge' = [bridge EXCEPT !.raised = TRUE, !.data = <<>>,
                                    !.pc = "for"]
  /\ UNCHANGED <<supervisor, scan, paced, cli, link, opening>>

\* close(): self._stop_event.set()
CloseSetsStop ==
  /\ bridge.pc # "none"
  /\ bridge.close_pc = "none"
  /\ bridge' = [bridge EXCEPT !.stop = TRUE, !.stop_at = bridge.pc,
                              !.close_pc = "close_a"]
  /\ UNCHANGED <<supervisor, scan, paced, cli, link, opening>>

\* close(): os.close(fd) for each master, OSError ignored.
CloseMaster ==
  /\ bridge.close_pc \in {"close_a", "close_b"}
  /\ bridge' = IF bridge.close_pc = "close_a"
               THEN [bridge EXCEPT !.open = @ \ {"a"}, !.close_pc = "close_b"]
               ELSE [bridge EXCEPT !.open = @ \ {"b"}, !.close_pc = "join"]
  /\ UNCHANGED <<supervisor, scan, paced, cli, link, opening>>

\* close(): self._thread.join(timeout=1.0) returns when the worker has
\* terminated or the second has passed.
CloseJoins ==
  /\ bridge.close_pc = "join"
  /\ bridge' = [bridge EXCEPT !.close_pc = "returned"]
  /\ UNCHANGED <<supervisor, scan, paced, cli, link, opening>>

Worker == WorkerTop \/ WorkerSelect \/ WorkerFor \/ WorkerRead \/ WorkerWrite

InitBridge ==
  /\ Start({DefaultConfig})
  /\ scan = NoScan
  /\ paced = NoPaced
  /\ cli = NoCli
  /\ link = NoLink /\ opening = NoOpening
  /\ \E ia \in BridgeInputs(0), ib \in BridgeInputs(16) :
       bridge = StartedBridge(ia, ib)

NextBridge ==
  \/ WorkerTop
  \/ WorkerSelect
  \/ WorkerFor
  \/ WorkerRead
  \/ WorkerWrite
  \/ CloseSetsStop
  \/ CloseMaster
  \/ CloseJoins

BridgeSpec == InitBridge /\ [][NextBridge]_vars

\* The worker is a thread of its own and each of its calls returns (the
\* poll after at most half a second), so it keeps taking steps.
FairBridgeSpec == BridgeSpec /\ WF_vars(Worker)

(***************************************************************************)
(* open_input_device: one call, given the input section of the             *)
(* configuration and what /dev/input holds.                                *)
(***************************************************************************)
\* The most device nodes list_devices returns.
MaxNodes == 3

\* str.lower on the letters that occur.
LowerChar(ch) ==
  CASE ch = "S" -> "s" [] ch = "C" -> "c" [] ch = "U" -> "u" [] OTHER -> ch

Lower(str) == [i \in 1..Len(str) |-> LowerChar(str[i])]

\* h in str
Contains(h, str) ==
  \E i \in 1..(Len(str) + 1) :
    /\ i + Len(h) - 1 <= Len(str)
    /\ SubSeq(str, i, i + Len(h) - 1) = h

\* value.lower() if value else ""
_normalize_device_hint(value) == IF Truthy(value) THEN Lower(value[1]) ELSE <<>>

\* A device node: whether InputDevice(path) opens it, whether its vendor and
\* product ids are the configured ones, its EV_KEY capabilities (None when
\* reading them raises OSError) and its name, phys and uniq strings.
Node(opens, match, caps, name, phys, uniq) ==
  [opens |-> opens, match |-> match, caps |-> caps, name |-> name,
   phys |-> phys, uniq |-> uniq]

NodeKinds ==
  { Node(FALSE, TRUE, Some({}), None, None, None),
    Node(TRUE, FALSE, Some({"KEY_A"}), Some(<<"S", "C">>), None, None),
    Node(TRUE, TRUE, Some({}), Some(<<"k", "b">>), None, None),
    Node(TRUE, TRUE, Some({"KEY_A", "KEY_ENTER"}), Some(<<"k", "b">>), None, None),
    Node(TRUE, TRUE, None, Some(<<"S", "C">>), None, None),
    Node(TRUE, TRUE, Some({"KEY_ENTER"}), None, Some(<<"u", "S", "c">>), Some(<<>>)) }

NodeLists == UNION {[1..n -> NodeKinds] : n \in 0..MaxNodes}

\* The input section: device, vendor_id, product_id, prefer_event_has_keys,
\* device_name_contains; and the file system: what becomes of the configured
\* path, whether list_devices raises, and the nodes it lists.
ScanInput(dev, vendor_id, product_id, prefer, hint, path, list_fails, nodes) ==
  [device |-> dev, vendor_id |-> vendor_id, product_id |-> product_id,
   prefer_event_has_keys |-> prefer, device_name_contains |-> hint,
   path |-> path, list_fails |-> list_fails, nodes |-> nodes]

PathStates == {"missing", "PermissionError", "OSError", "ok"}

Prefers == {{}, {"KEY_ENTER", "KEY_F24"}}

Hints == {None, Some(<<"s", "c">>), Some(<<"S", "C">>)}

ScanInputs ==
  {ScanInput(Some(<<"e", "0">>), v, p, {}, None, ps, FALSE, ns) :
     v \in {None, Some(1)}, p \in {None, Some(2)}, ps \in PathStates,
     ns \in {nl \in NodeLists : Len(nl) <= 1}}
  \cup
  {ScanInput(d, v, None, {}, None, "missing", FALSE, ns) :
     d \in {None, Some(<<>>)}, v \in {None, Some(1)},
     ns \in {nl \in NodeLists : Len(nl) <= 1}}
  \cup
  {ScanInput(None, Some(1), Some(2), pr, h, "missing", lf, ns) :
     pr \in Prefers, h \in Hints, lf \in BOOLEAN, ns \in NodeLists}

\* The result of the call: the exception that leaves it ("none" when it
\* returns a device), the device returned (0: the configured path, i: the
\* i-th listed node), and the listed nodes it opened and closed.
ScanResult(e, dev, opened_nodes, closed_nodes) ==
  [exc |-> e, device |-> dev, opened |-> opened_nodes, closed |-> closed_nodes]

_device_has_keys(node, keys) ==
  IF node.caps = None THEN FALSE
  ELSE IF node.caps[1] = {} THEN FALSE
  ELSE \E key \in keys : key \in node.caps[1]

_score_device(node, inp) ==
  (IF inp.prefer_event_has_keys # {}
      /\ _device_has_keys(node, inp.prefer_event_has_keys)
   THEN 2 ELSE 0)
  +
  (IF Truthy(inp.device_name_contains)
   THEN LET hint == Lower(inp.device_name_contains[1])
        IN IF \/ Contains(hint, _normalize_device_hint(node.name))
              \/ Contains(hint, _normalize_device_hint(node.phys))
              \/ Contains(hint, _normalize_device_hint(node.uniq))
           THEN 1 ELSE 0
   ELSE 0)

RECURSIVE SortByScore(_, _)
\* scored.sort(key=score, reverse=True): stable, highest score first.
SortByScore(matches, score) ==
  IF matches = <<>> THEN <<>>
  ELSE LET top == CHOOSE i \in 1..Len(matches) :
                    /\ \A j \in 1..Len(matches) :
                         score[matches[j]] <= score[matches[i]]
                    /\ \A j \in 1..(i - 1) :
                         score[matches[j]] < score[matches[i]]
           rest == SubSeq(matches, 1, top - 1)
                     \o SubSeq(matches, top + 1, Len(matches))
       IN <<matches[top]>> \o SortByScore(rest, score)

\* A best candidate that also wins a tie.
wins_on_tie(best_score, second_score) ==
  best_score > 0 /\ second_score <= best_score

\* best_score > 0 and scored[1][1] < best_score
is_clear_winner(best_score, second_score) ==
  best_score > 0 /\ second_score < best_score

\* [selected, closed]: the device chosen among the matches (indices into
\* the listed nodes) and the matches closed on the way.
\* A selection that leaves the losing candidates open.
select_keeps_losers(matches, inp) ==
  IF matches = <<>> THEN [selected |-> None, closed |-> {}]
  ELSE IF Len(matches) = 1 THEN [selected |-> Some(matches[1]), closed |-> {}]
  ELSE LET score == [i \in 1..Len(inp.nodes) |-> _score_device(inp.nodes[i], inp)]
           scored == SortByScore(matches, score)
       IN IF is_clear_winner(score[scored[1]], score[scored[2]])
          THEN [selected |-> Some(scored[1]), closed |-> {}]
          ELSE [selected |-> None, closed |-> {}]

_select_single_device(matches, inp) ==
  IF matches = <<>> THEN [selected |-> None, closed |-> {}]
  ELSE IF Len(matches) = 1 THEN [selected |-> Some(matches[1]), closed |-> {}]
  ELSE LET score == [i \in 1..Len(inp.nodes) |-> _score_device(inp.nodes[i], inp)]
           scored == SortByScore(matches, score)
       IN IF is_clear_winner(score[scored[1]], score[scored[2]])
          THEN [selected |-> Some(scored[1]),
                closed |-> {scored[k] : k \in 2..Len(scored)}]
          ELSE [selected |-> None, closed |-> {}]

RECURSIVE SelectSeq2(_, _)
\* The indices of a sequence, in order, that satisfy keep.
SelectSeq2(idx, keep) ==
  IF idx = <<>> THEN <<>>
  ELSE (IF keep[Head(idx)] THEN <<Head(idx)>> ELSE <<>>)
         \o SelectSeq2(Tail(idx), keep)

\* A scan whose open failures are forgotten.
no_match_is_not_found(access_error) == "DeviceNotFoundError"

\* if not matches: DeviceAccessError if access_error else DeviceNotFoundError
no_match_error(access_error) ==
  IF access_error THEN "DeviceAccessError" ELSE "DeviceNotFoundError"

_select_device_by_vid_pid(inp) ==
  LET n == Len(inp.nodes)
      all == [i \in 1..n |-> i]
      opened_nodes == {i \in 1..n : inp.nodes[i].opens}
      access_error == opened_nodes # 1..n
      matches == SelectSeq2(all, [i \in 1..n |-> inp.nodes[i].opens
                                                 /\ inp.nodes[i].match])
      others == {i \in opened_nodes : ~inp.nodes[i].match}
      sel == _select_single_device(matches, inp)
  IN IF matches = <<>>
     THEN ScanResult(no_match_error(access_error), None, opened_nodes, others)
     ELSE IF sel.selected # None
     THEN ScanResult("none", sel.selected, opened_nodes, others \cup sel.closed)
     ELSE ScanResult("DeviceNotFoundError", None, opened_nodes,
                     others \cup {matches[k] : k \in 1..Len(matches)})

open_input_device(inp) ==
  IF Truthy(inp.device)
  THEN IF inp.path = "missing"
       THEN ScanResult("DeviceNotFoundError", None, {}, {})
       ELSE IF inp.path \in {"PermissionError", "OSError"}
       THEN ScanResult("DeviceAccessError", None, {}, {})
       ELSE ScanResult("none", Some(0), {}, {})
  ELSE IF inp.vendor_id # None /\ inp.product_id # None
  THEN IF inp.list_fails
       THEN ScanResult("DeviceAccessError", None, {}, {})
       ELSE _select_device_by_vid_pid(inp)
  ELSE ScanResult("DeviceNotFoundError", None, {}, {})

NoResult == ScanResult("pending", None, {}, {})

InitScan ==
  /\ Start({DefaultConfig})
  /\ bridge = NoBridge
  /\ paced = NoPaced
  /\ cli = NoCli
  /\ link = NoLink /\ opening = NoOpening
  /\ \E inp \in ScanInputs :
       scan = [pc |-> "call", input |-> inp, result |-> NoResult]

\* device = open_input_device(config.input)
OpenInputDeviceCall ==
  /\ scan.pc = "call"
  /\ scan' = [scan EXCEPT !.pc = "done",
                          !.result = open_input_device(scan.input)]
  /\ UNCHANGED <<supervisor, bridge, paced, cli, link, opening>>

NextScan == OpenInputDeviceCall

ScanSpec == InitScan /\ [][NextScan]_vars

(***************************************************************************)
(* _send_payload_with_timing, call by call: one byte-paced send of data    *)
(* that encoded to bytes, on a port with the given serial settings.  Time  *)
(* is counted in units of TimeUnit to the second, so that every frame time *)
(* of the settings drawn is a whole number of units.                       *)
(***************************************************************************)
\* The most bytes a paced payload encodes to.
MaxPaced == 2

\* Clock units per second: 4, with baud rates 1 and 2 and half stop bits.
TimeUnit == 4

\* SerialConfig: baudrate, bytesize, parity, and stopbits in half bits
\* (2, 3, 4 for 1, 1.5, 2).
SerialSetting(baudrate, bytesize, parity, stopbits2) ==
  [baudrate |-> baudrate, bytesize |-> bytesize, parity |-> parity,
   stopbits2 |-> stopbits2]

SerialSettings ==
  { SerialSetting(1, 8, "N", 2), SerialSetting(2, 8, "E", 3),
    SerialSetting(1, 5, "O", 4), SerialSetting(2, 7, "N", 3) }

\* A frame without its parity bit.
frame_without_parity(sc) ==
  ((2 * (1 + sc.bytesize) + sc.stopbits2) * TimeUnit) \div (2 * sc.baudrate)

\* bits_per_frame / baudrate, in clock units.
_calculate_frame_seconds(sc) ==
  LET parity_bits == IF sc.parity = "N" THEN 0 ELSE 1
      bits_per_frame2 == 2 * (1 + sc.bytesize + parity_bits) + sc.stopbits2
  IN (bits_per_frame2 * TimeUnit) \div (2 * sc.baudrate)

\* What a call can take: no time, or longer than any frame.  The first
\* write attempt of a byte is the call that may be slow.
CallTimes(attempt) == IF attempt = 0 THEN {0, 40} ELSE {0}

\* What time.sleep adds to the time asked for.
Oversleeps == {0, 1}

\* What port.write returns: None or a count.
WriteReturns == {None, Some(0), Some(1), Some(2)}

\* The send is entered at clock 0 with data encoded and not empty handling
\* still ahead.  calls lists the write calls: the byte, what the call
\* returned and whether it raised; flushes counts the flush calls.
PacedSend(data, sc) ==
  [pc |-> "begin", data |-> data, serial |-> sc, clock |-> 0, start |-> 0,
   next_time |-> 0, i |-> 1, attempt |-> 0, calls |-> <<>>, flushes |-> 0,
   exc |-> "none"]

\* if not data: return; next_time = time.monotonic()
PacedBegin ==
  /\ paced.pc = "begin"
  /\ \E d \in {0, 1} :
       paced' = IF paced.data = <<>>
                THEN [paced EXCEPT !.pc = "done", !.clock = @ + d]
                ELSE [paced EXCEPT !.pc = "write", !.clock = @ + d,
                                   !.next_time = paced.clock + d]
  /\ UNCHANGED <<supervisor, bridge, scan, cli, link, opening>>

\* A retry that goes on for any count but 1.
retry_any_short(written, attempt) == written # Some(1) /\ attempt < 2

\* if written in (0, None) and attempt < 2: continue
retry_write(written, attempt) ==
  written \in {None, Some(0)} /\ attempt < 2

\* written = port.write(bytes([byte])), inside for attempt in range(3)
PacedWrite ==
  /\ paced.pc = "write"
  /\ LET byte == paced.data[paced.i]
         call(ret, raised) == [byte |-> byte, ret |-> ret, raised |-> raised]
     IN \E d \in CallTimes(paced.attempt) :
          \/ \E kind \in PortErrors :
               paced' = [paced EXCEPT !.clock = @ + d,
                                      !.calls = Append(@, call(None, TRUE)),
                                      !.exc = SendRaises(kind),
                                      !.pc = "done"]
          \/ \E written \in WriteReturns :
               paced' =
                 IF written = Some(1)
                 THEN [paced EXCEPT !.clock = @ + d,
                                    !.calls = Append(@, call(written, FALSE)),
                                    !.next_time = @ + _calculate_frame_seconds(paced.serial),
                                    !.pc = "sleep"]
                 ELSE IF retry_write(written, paced.attempt)
                 THEN [paced EXCEPT !.clock = @ + d,
                                    !.calls = Append(@, call(written, FALSE)),
                                    !.attempt = @ + 1]
                 ELSE [paced EXCEPT !.clock = @ + d,
                                    !.calls = Append(@, call(written, FALSE)),
                                    !.exc = "SerialConnectionError",
                                    !.pc = "done"]
  /\ UNCHANGED <<supervisor, bridge, scan, cli, link, opening>>

\* sleep_seconds = next_time - time.monotonic(); sleep if positive; then
\* the next byte, or the flush after the last one.
PacedSleep ==
  /\ paced.pc = "sleep"
  /\ LET sleep_seconds == paced.next_time - paced.clock
         after == IF paced.i < Len(paced.data)
                  THEN [paced EXCEPT !.i = @ + 1, !.attempt = 0, !.pc = "write"]
                  ELSE [paced EXCEPT !.pc = "flush"]
     IN IF sleep_seconds > 0
        THEN \E over \in Oversleeps :
               paced' = [after EXCEPT !.clock = @ + sleep_seconds + over]
        ELSE paced' = after
  /\ UNCHANGED <<supervisor, bridge, scan, cli, link, opening>>

\* port.flush()
PacedFlush ==
  /\ paced.pc = "flush"
  /\ \E d \in {0, 1} :
       \/ paced' = [paced EXCEPT !.clock = @ + d, !.flushes = @ + 1,
                                 !.pc = "done"]
       \/ \E kind \in PortErrors :
            paced' = [paced EXCEPT !.clock = @ + d, !.flushes = @ + 1,
                                   !.exc = SendRaises(kind), !.pc = "done"]
  /\ UNCHANGED <<supervisor, bridge, scan, cli, link, opening>>

\* The encoded payloads: distinct bytes, so that a write call names its byte.
PacedInputs == {[i \in 1..n |-> 64 + i] : n \in 0..MaxPaced}

InitPaced ==
  /\ Start({DefaultConfig})
  /\ bridge = NoBridge
  /\ scan = NoScan
  /\ cli = NoCli
  /\ link = NoLink /\ opening = NoOpening
  /\ \E data \in PacedInputs, sc \in SerialSettings :
       paced = PacedSend(data, sc)

NextPaced ==
  \/ PacedBegin
  \/ PacedWrite
  \/ PacedSleep
  \/ PacedFlush

PacedSpec == InitPaced /\ [][NextPaced]_vars

\* ---------------------------------------------------------------------
\* cli.main: load the configuration, run the event loop, turn what comes
\* out of either into the exit code of the process.

\* The classes of the exceptions main can meet, each with the classes
\* isinstance accepts it as. The four runner errors derive from
\* RuntimeError; KeyboardInterrupt and SystemExit are not Exceptions.
Mro(cls) ==
  CASE cls = "FileNotFoundError" ->
         {"FileNotFoundError", "OSError", "Exception", "BaseException"}
    [] cls = "PermissionError" ->
         {"PermissionError", "OSError", "Exception", "BaseException"}
    [] cls \in {"DeviceNotFoundError", "DeviceAccessError",
                "SerialConnectionError"} ->
         {cls, "RuntimeError", "Exception", "BaseException"}
    [] cls = "RuntimeError" -> {"RuntimeError", "Exception", "BaseException"}
    [] cls = "ValueError" -> {"ValueError", "Exception", "BaseException"}
    [] cls \in {"KeyboardInterrupt", "SystemExit"} -> {cls, "BaseException"}

isinstance(cls, type) == type \in Mro(cls)

\* The outcome of a call: a returned value or a raised exception.
Returns(v) == [exc |-> "none", value |-> v]
Raises(cls) == [exc |-> cls]

\* str.strip() of a value of the configuration file.
RECURSIVE lstrip(_)
lstrip(text) ==
  IF text # <<>> /\ Head(text) = " " THEN lstrip(Tail(text)) ELSE text

RECURSIVE rstrip(_)
rstrip(text) ==
  IF text # <<>> /\ text[Len(text)] = " "
  THEN rstrip(SubSeq(text, 1, Len(text) - 1))
  ELSE text

strip(text) == rstrip(lstrip(text))

\* The value of a digit character; 99, a digit of no base, for every other
\* character.
DigitOf(c) ==
  CASE c = "0" -> 0 [] c = "1" -> 1 [] c = "2" -> 2 [] c = "7" -> 7
    [] c = "a" -> 10 [] c = "f" -> 15 [] OTHER -> 99

RECURSIVE Digits(_, _, _)
Digits(text, base, acc) ==
  IF text = <<>> THEN Some(acc)
  ELSE IF DigitOf(Head(text)) >= base THEN None
  ELSE Digits(Tail(text), base, acc * base + DigitOf(Head(text)))

\* int(value, 0): a decimal literal or a 0x literal; None for ValueError.
int0(text) ==
  IF Len(text) >= 2 /\ text[1] = "0" /\ text[2] = "x"
  THEN IF Len(text) = 2 THEN None
       ELSE Digits(SubSeq(text, 3, Len(text)), 16, 0)
  ELSE IF text = <<>> \/ (Len(text) > 1 /\ text[1] = "0") THEN None
  ELSE Digits(text, 10, 0)

_parse_optional_int(value) ==
  IF value = None THEN Returns(None)
  ELSE IF strip(value[1]) = <<>> THEN Returns(None)
  ELSE IF int0(strip(value[1])) = None THEN Raises("ValueError")
  ELSE Returns(int0(strip(value[1])))

\* The codec labels str.encode accepts, among those a file may name.
KnownCodecs == {"utf-8", "ascii"}

\* What a configuration file may say for vendor_id and product_id: the
\* option absent, blank, a hex or decimal literal, or not a number.
IdTexts ==
  {None, Some(<<" ">>), Some(<<"0", "x", "1", "a">>), Some(<<"7", " ">>),
   Some(<<"z">>)}

\* A configuration file. file: whether the path exists, parses, and has the
\* three sections; rest: whether the options load_config validates, other
\* than those named here, pass their checks.
ConfigFile(file, mode, dev, vendor_id, product_id, encoding, rest) ==
  [file |-> file, mode |-> mode, device |-> dev, vendor_id |-> vendor_id,
   product_id |-> product_id, encoding |-> encoding, rest |-> rest]

ConfigFiles ==
  {ConfigFile(file, mode, dev, v, p, enc, rest) :
     file \in {"missing", "garbled", "no_sections", "ok"},
     mode \in {"evdev", "stdin"},
     dev \in {None, Some(<<"e", "0">>)},
     v \in IdTexts, p \in IdTexts,
     enc \in KnownCodecs \cup {"unknown-encoding"},
     rest \in BOOLEAN}

load_config(f) ==
  IF f.file = "missing" THEN Raises("FileNotFoundError")
  ELSE IF f.file = "garbled" THEN Raises("ValueError")
  ELSE IF f.file = "no_sections" THEN Raises("ValueError")
  ELSE LET vendor_id == _parse_optional_int(f.vendor_id)
           product_id == _parse_optional_int(f.product_id)
       IN IF vendor_id.exc # "none" THEN vendor_id
          ELSE IF product_id.exc # "none" THEN product_id
          ELSE IF ~f.rest THEN Raises("ValueError")
          ELSE Returns([mode |-> f.mode, device |-> f.device,
                        vendor_id |-> vendor_id.value,
                        product_id |-> product_id.value,
                        encoding |-> f.encoding])

_unsupported_platform_message(platform) ==
  IF platform \in {"win32"} THEN Some("unsupported") ELSE None

\* main's table from exception class to exit code, in the order it is
\* searched.
exit_codes_serial_as_device ==
  << <<"FileNotFoundError", 2>>, <<"DeviceNotFoundError", 3>>,
     <<"DeviceAccessError", 3>>, <<"SerialConnectionError", 3>>,
     <<"ValueError", 4>> >>

error_exit_codes ==
  << <<"FileNotFoundError", 2>>, <<"DeviceNotFoundError", 3>>,
     <<"DeviceAccessError", 3>>, <<"SerialConnectionError", 5>>,
     <<"ValueError", 4>> >>

\* The except clauses of main: the exit code returned, or None when the
\* exception leaves main.
main_except(cls) ==
  IF cls = "KeyboardInterrupt" THEN Some(0)
  ELSE IF ~isinstance(cls, "Exception") THEN None
  ELSE LET hits == {i \in DOMAIN error_exit_codes :
                      isinstance(cls, error_exit_codes[i][1])}
       IN IF hits = {} THEN None
          ELSE Some(error_exit_codes[
                      CHOOSE i \in hits : \A j \in hits : i <= j][2])

\* main has been called on a platform with a configuration file.
CliRun(platform, f) ==
  [pc |-> "main", platform |-> platform, file |-> f, config |-> None,
   exc |-> "none", code |-> None, raised |-> "none",
   device_opened |-> FALSE, port_opened |-> FALSE, sends |-> 0]

\* main's last step: it returns the code, or the exception leaves it.
CliDone(c, code) == [c EXCEPT !.pc = "done", !.code = Some(code)]
CliThrow(c, cls) == [c EXCEPT !.pc = "except", !.exc = cls]

\* The platform check before anything is loaded.
MainPlatform ==
  /\ cli.pc = "main"
  /\ cli' = IF _unsupported_platform_message(cli.platform) # None
            THEN CliDone(cli, 1)
            ELSE [cli EXCEPT !.pc = "load"]
  /\ UNCHANGED <<supervisor, bridge, scan, paced, link, opening>>

\* config = load_config(args.config)
MainLoadConfig ==
  /\ cli.pc = "load"
  /\ LET r == load_config(cli.file)
     IN cli' = IF r.exc # "none" THEN CliThrow(cli, r.exc)
               ELSE [cli EXCEPT !.pc = "run", !.config = Some(r.value)]
  /\ UNCHANGED <<supervisor, bridge, scan, paced, link, opening>>

\* What open_input_device can do for a configuration: without a device
\* path and without both ids it can only raise DeviceNotFoundError.
OpenOutcomes(config) ==
  IF Truthy(config.device)
     \/ (config.vendor_id # None /\ config.product_id # None)
  THEN {"opened", "DeviceNotFoundError", "DeviceAccessError"}
  ELSE {"DeviceNotFoundError"}

\* run_event_loop up to the input device: the mode check, then
\* open_input_device. The exception that leaves it is the one of the last
\* attempt.
MainRunOpen ==
  /\ cli.pc = "run"
  /\ \/ /\ cli.config[1].mode # "evdev"
        /\ cli' = CliThrow(cli, "ValueError")
     \/ /\ cli.config[1].mode = "evdev"
        /\ \E o \in OpenOutcomes(cli.config[1]) :
             cli' = IF o = "opened"
                    THEN [cli EXCEPT !.pc = "port", !.device_opened = TRUE]
                    ELSE CliThrow(cli, o)
  /\ UNCHANGED <<supervisor, bridge, scan, paced, link, opening>>

\* The inner loop opens the serial sink.
MainRunPort ==
  /\ cli.pc = "port"
  /\ \/ cli' = [cli EXCEPT !.pc = "loop", !.port_opened = TRUE]
     \/ cli' = CliThrow(cli, "SerialConnectionError")
  /\ UNCHANGED <<supervisor, bridge, scan, paced, link, opening>>

MaxSends == 2

\* The inner loop runs: it sends a payload (the first send of a payload
\* under an unknown codec label raises ValueError), the event stream ends
\* and run_event_loop returns, the user interrupts, a write fails, or some
\* exception of a class main does not name comes through.
MainRunLoop ==
  /\ cli.pc = "loop"
  /\ \/ /\ cli.sends < MaxSends
        /\ cli' = IF cli.config[1].encoding \in KnownCodecs
                  THEN [cli EXCEPT !.sends = @ + 1]
                  ELSE CliThrow(cli, "ValueError")
     \/ cli' = CliDone(cli, 0)
     \/ \E cls \in {"KeyboardInterrupt", "SerialConnectionError",
                    "RuntimeError", "PermissionError", "SystemExit"} :
          cli' = CliThrow(cli, cls)
  /\ UNCHANGED <<supervisor, bridge, scan, paced, link, opening>>

\* The except clauses of main.
MainExcept ==
  /\ cli.pc = "except"
  /\ cli' = IF main_except(cli.exc) = None
            THEN [cli EXCEPT !.pc = "done", !.raised = cli.exc]
            ELSE CliDone(cli, main_except(cli.exc)[1])
  /\ UNCHANGED <<supervisor, bridge, scan, paced, link, opening>>

InitCli ==
  /\ Start({DefaultConfig})
  /\ bridge = NoBridge
  /\ scan = NoScan
  /\ paced = NoPaced
  /\ link = NoLink /\ opening = NoOpening
  /\ cli \in {CliRun(platform, f) : platform \in {"linux", "win32"},
                          f \in ConfigFiles}

NextCli ==
  \/ MainPlatform
  \/ MainLoadConfig
  \/ MainRunOpen
  \/ MainRunPort
  \/ MainRunLoop
  \/ MainExcept

CliSpec == InitCli /\ [][NextCli]_vars

\* ---------------------------------------------------------------------
\* The pty_link symlink of a virtual serial port: created by
\* _create_pty_symlink, removed by VirtualPtyResources.close.

\* What is at the pty_link path: nothing, a file that is no symlink, or a
\* symlink with its target ("gone": the target does not exist).
PathNode(kind, target) == [kind |-> kind, target |-> target]
Absent == PathNode("absent", "none")
PathNodes ==
  {Absent, PathNode("file", "none"), PathNode("dir", "none"),
   PathNode("symlink", "old"), PathNode("symlink", "gone")}

\* Path.exists() follows symlinks; Path.is_symlink() does not.
exists(node) ==
  node.kind \in {"file", "dir"} \/ (node.kind = "symlink" /\ node.target # "gone")
is_symlink(node) == node.kind = "symlink"

\* A creation that clears whatever is at the path.
create_replacing_any(pty_link, node, unlink_fails, symlink_fails) ==
  IF pty_link = None
  THEN [exc |-> "none", symlink_path |-> None, created_symlink |-> FALSE,
        node |-> node]
  ELSE IF (exists(node) \/ is_symlink(node)) /\ unlink_fails
  THEN [exc |-> "SerialConnectionError", node |-> node]
  ELSE IF symlink_fails
  THEN [exc |-> "SerialConnectionError", node |-> Absent]
  ELSE [exc |-> "none", symlink_path |-> pty_link, created_symlink |-> TRUE,
        node |-> PathNode("symlink", "peer_slave")]

\* _create_pty_symlink: the result (symlink_path, created_symlink) or the
\* exception, and what is at the path afterwards. unlink_fails and
\* symlink_fails say whether the two file-system calls raise OSError.
_create_pty_symlink(pty_link, node, unlink_fails, symlink_fails) ==
  IF pty_link = None
  THEN [exc |-> "none", symlink_path |-> None, created_symlink |-> FALSE,
        node |-> node]
  ELSE IF (exists(node) \/ is_symlink(node)) /\ ~is_symlink(node)
  THEN [exc |-> "SerialConnectionError", node |-> node]
  ELSE IF is_symlink(node) /\ unlink_fails
  THEN [exc |-> "SerialConnectionError", node |-> node]
  ELSE IF symlink_fails
  THEN [exc |-> "SerialConnectionError", node |-> Absent]
  ELSE [exc |-> "none", symlink_path |-> pty_link, created_symlink |-> TRUE,
        node |-> PathNode("symlink", "peer_slave")]

\* A virtual port is being created for a configuration with or without
\* pty_link, with something at the path.
LinkStart(pty_link, node) ==
  [pc |-> "create", pty_link |-> pty_link, before |-> node, node |-> node,
   made |-> node, exc |-> "none", symlink_path |-> None,
   created_symlink |-> FALSE, unlinks |-> 0, closes |-> 0, meddled |-> 0]

\* _create_virtual_pty reaches _create_pty_symlink: on SerialConnectionError
\* it closes the masters and re-raises, and there are no resources to tear
\* down; otherwise the VirtualPtyResources record the result.
LinkCreate ==
  /\ link.pc = "create"
  /\ \E unlink_fails \in BOOLEAN, symlink_fails \in BOOLEAN :
       LET r == _create_pty_symlink(link.pty_link, link.node, unlink_fails,
                                    symlink_fails)
       IN link' = IF r.exc # "none"
                  THEN [link EXCEPT !.pc = "failed", !.exc = r.exc,
                                    !.node = r.node, !.made = r.node]
                  ELSE [link EXCEPT !.pc = "serving", !.node = r.node,
                                    !.made = r.node,
                                    !.symlink_path = r.symlink_path,
                                    !.created_symlink = r.created_symlink]
  /\ UNCHANGED <<supervisor, bridge, scan, paced, cli, opening>>

MaxMeddles == 2

\* While the sink serves, another process changes what is at the path.
LinkMeddle ==
  /\ link.pc = "serving"
  /\ link.meddled < MaxMeddles
  /\ \E node \in PathNodes \ {link.node} :
       link' = [link EXCEPT !.node = node, !.meddled = @ + 1]
  /\ UNCHANGED <<supervisor, bridge, scan, paced, cli, opening>>

\* VirtualPtyResources.close after bridge.close(): unlink the path when
\* this instance created the symlink. FileNotFoundError and any other
\* OSError of unlink are swallowed.
LinkClose ==
  /\ link.pc = "serving"
  /\ IF link.created_symlink /\ link.symlink_path # None
     THEN \E raised \in {"none", "OSError"} :
            link' = [link EXCEPT
                       !.pc = "closed", !.closes = @ + 1, !.unlinks = @ + 1,
                       !.node = IF link.node.kind \in {"absent", "dir"}
                                   \/ raised # "none"
                                THEN @ ELSE Absent]
     ELSE link' = [link EXCEPT !.pc = "closed", !.closes = @ + 1]
  /\ UNCHANGED <<supervisor, bridge, scan, paced, cli, opening>>

InitLink ==
  /\ Start({DefaultConfig})
  /\ bridge = NoBridge
  /\ scan = NoScan
  /\ paced = NoPaced
  /\ cli = NoCli
  /\ opening = NoOpening
  /\ link \in {LinkStart(pty_link, node) :
                 pty_link \in {None, Some(<<"l">>)}, node \in PathNodes}

NextLink ==
  \/ LinkCreate
  \/ LinkMeddle
  \/ LinkClose

LinkSpec == InitLink /\ [][NextLink]_vars


(***************************************************************************)
(* One call of _open_serial_port, step by step.  The call is given the     *)
(* place where the operating system or pyserial fails, if any.  opening.r  *)
(* holds what the call has allocated, in the shape of the sink's           *)
(* resources, and opening.slaves the slave fds that are open.              *)
(***************************************************************************)
\* The calls that can fail, by the exception they raise: pty.openpty for the
\* first and the second pair, tty.setraw (termios.error), os.ttyname,
\* os.chmod, grp.getgrnam (KeyError), os.chown, the creation of the symlink,
\* serial.Serial (SerialException, OSError with ENOENT or EACCES, TypeError
\* for the exclusive flag), and setDTR and setRTS.
PtyFailures ==
  {"openpty_a", "openpty_b", "setraw", "ttyname", "chmod", "getgrnam",
   "chown", "symlink"}

OpenFailures ==
  {"none"} \cup PtyFailures
  \cup {"Serial_SerialException", "Serial_ENOENT", "Serial_EACCES",
        "Serial_TypeError", "setDTR", "setRTS"}

OpenCall(port_auto, pty_link, fail) ==
  [pc |-> "pty", port_auto |-> port_auto, pty_link |-> pty_link,
   fail |-> fail, slaves |-> {}, r |-> NoSink, exc |-> "none"]

OpenRaises(o, e) == [o EXCEPT !.pc = "raised", !.exc = e]

\* port_name == "auto": _create_virtual_pty opens the two pairs.
OpenPtyPairs ==
  /\ opening.pc = "pty"
  /\ opening' =
       IF ~opening.port_auto THEN [opening EXCEPT !.pc = "serial"]
       ELSE IF opening.fail = "openpty_a"
       THEN OpenRaises(opening, "SerialConnectionError")
       ELSE IF opening.fail = "openpty_b"
       THEN OpenRaises([opening EXCEPT !.r.masters = {"master_a"},
                                       !.slaves = {"slave_a"}],
                       "SerialConnectionError")
       ELSE [opening EXCEPT !.pc = "raw",
                            !.r.masters = {"master_a", "master_b"},
                            !.slaves = {"slave_a", "slave_b"}]
  /\ UNCHANGED <<supervisor, bridge, scan, paced, cli, link>>

\* Raw mode and the slave names; the finally clause closes the slave fds.
\* termios.error is no OSError and passes the except clause.
SetRaw ==
  /\ opening.pc = "raw"
  /\ LET closed_slaves == [opening EXCEPT !.slaves = {}]
     IN opening' =
          IF opening.fail = "setraw"
          THEN OpenRaises(closed_slaves, "termios.error")
          ELSE IF opening.fail = "ttyname"
          THEN OpenRaises(closed_slaves, "SerialConnectionError")
          ELSE [closed_slaves EXCEPT !.pc = "perm"]
  /\ UNCHANGED <<supervisor, bridge, scan, paced, cli, link>>

\* Permissions of both slaves and the symlink; on SerialConnectionError the
\* masters are closed.
ApplyAndLink ==
  /\ opening.pc = "perm"
  /\ opening' =
       IF opening.fail \in {"chmod", "getgrnam", "chown", "symlink"}
       THEN OpenRaises([opening EXCEPT !.r.masters = {}],
                       "SerialConnectionError")
       ELSE [opening EXCEPT !.pc = "bridge",
                            !.r.link = IF opening.pty_link THEN "created"
                                       ELSE "none"]
  /\ UNCHANGED <<supervisor, bridge, scan, paced, cli, link>>

StartBridge ==
  /\ opening.pc = "bridge"
  /\ opening' = [opening EXCEPT !.pc = "serial", !.r.bridge = "running"]
  /\ UNCHANGED <<supervisor, bridge, scan, paced, cli, link>>

\* resources.close() when resources is not None.
CloseResourcesIfAny(r) ==
  IF r.bridge # "none" THEN VirtualPtyResources_close(r) ELSE r

\* serial.Serial(**serial_kwargs) and the two outer except clauses.
OpenSerial ==
  /\ opening.pc = "serial"
  /\ opening' =
       IF opening.fail \in {"Serial_SerialException", "Serial_ENOENT",
                            "Serial_EACCES", "Serial_TypeError"}
       THEN OpenRaises([opening EXCEPT !.r = CloseResourcesIfAny(@)],
                       "SerialConnectionError")
       ELSE [opening EXCEPT !.pc = "modem", !.r.port = "open"]
  /\ UNCHANGED <<supervisor, bridge, scan, paced, cli, link>>

\* _apply_modem_signal_settings; on failure the port is closed, then the
\* resources.
ModemSignals ==
  /\ opening.pc = "modem"
  /\ opening' =
       IF opening.fail \in {"setDTR", "setRTS"}
       THEN OpenRaises([opening EXCEPT
                          !.r = CloseResourcesIfAny(exit_closes_port_only(@))],
                       "SerialConnectionError")
       ELSE [opening EXCEPT !.pc = "returned"]
  /\ UNCHANGED <<supervisor, bridge, scan, paced, cli, link>>

\* The with statement leaves: SerialPortHandle.__exit__.
HandleExit ==
  /\ opening.pc = "returned"
  /\ opening' = [opening EXCEPT !.pc = "exited",
                                !.r = SerialPortHandle_exit(@)]
  /\ UNCHANGED <<supervisor, bridge, scan, paced, cli, link>>

InitOpen ==
  /\ Start({DefaultConfig})
  /\ bridge = NoBridge
  /\ scan = NoScan
  /\ paced = NoPaced
  /\ cli = NoCli
  /\ link = NoLink
  /\ \E port_auto \in BOOLEAN, pty_link \in BOOLEAN, fail \in OpenFailures :
       /\ fail \in PtyFailures => port_auto
       /\ fail = "symlink" => pty_link
       /\ opening = OpenCall(port_auto, pty_link, fail)

NextOpen ==
  \/ OpenPtyPairs
  \/ SetRaw
  \/ ApplyAndLink
  \/ StartBridge
  \/ OpenSerial
  \/ ModemSignals
  \/ HandleExit

OpenSpec == InitOpen /\ [][NextOpen]_vars





(***************************************************************************)
(* Properties of the supervisor.                                           *)
(***************************************************************************)
\* C1: with reconnect_interval_seconds > 0 the supervisor sleeps exactly
\* once, for reconnect_interval_seconds, after each attempt that fails with
\* a reconnect-eligible error, and then starts a new attempt; it sleeps on
\* no other path.  failures counts the eligible errors raised, sleeps lists
\* the sleeps: they agree once the handler has run, every attempt before the
\* current one failed eligibly, and no eligible error leaves the supervisor.
C1_SleepOncePerEligibleFailure ==
  cfg.reconnect_interval_seconds > 0 =>
    /\ \A i \in 1..Len(sleeps) : sleeps[i] = cfg.reconnect_interval_seconds
    /\ Len(sleeps) = IF pc = "except" /\ exc \in ReconnectEligible
                     THEN failures - 1 ELSE failures
    /\ pc = "open" => failures = attempts
    /\ pc \in {"grab", "serve", "serving"} => failures = attempts - 1
    /\ pc \in {"returned", "raised"} =>
         exc \notin ReconnectEligible /\ failures = attempts - 1
    /\ pc = "finally" /\ last.op = "sleep" => exc = "none"

\* Two attempts have failed eligibly and two sleeps were taken.
C1_Witness ==
  /\ cfg.reconnect_interval_seconds > 0
  /\ failures = 2
  /\ sleeps = <<cfg.reconnect_interval_seconds, cfg.reconnect_interval_seconds>>
  /\ pc = "open"

\* C2: the device handle an attempt opened is closed exactly once before
\* the next attempt begins or the supervisor exits, on the success, retry
\* and re-raise paths alike; when the open itself fails no close is
\* attempted.  opened and closed count the successful opens and the close
\* calls: they agree between attempts and at exit, and differ by the one
\* handle held during an attempt.
C2_ClosedOncePerAttempt ==
  /\ pc \in {"open", "returned", "raised"} => device = None /\ closed = opened
  /\ pc \notin {"open", "returned", "raised"} =>
       /\ device = None => closed = opened
       /\ device # None => device = Some(opened) /\ closed = opened - 1

\* The supervisor has exited with an exception after a retry: two handles
\* were opened and two closed.
C2_Witness ==
  /\ pc = "raised"
  /\ opened = 2
  /\ closed = 2
  /\ Len(sleeps) = 1

(***************************************************************************)
(* Properties of the sink.  They are stated for every payload the decoder  *)
(* can hand over in the current state and for every answer of the port.    *)
(***************************************************************************)
\* The payloads the decoder can hand to a send now: in per_char mode the
\* characters the device's keys map to, otherwise the buffer with its line
\* end (an empty buffer only from a terminator under send_on_enter).
PayloadsNow ==
  IF cfg.send_mode = "per_char"
  THEN {map_keycode(k, shift_active(state), state.kana_mode)[1] :
          k \in {x \in cfg.keys :
                   Truthy(map_keycode(x, shift_active(state), state.kana_mode))}}
  ELSE IF state.text # <<>> \/ (cfg.send_mode = "on_enter" /\ cfg.send_on_enter)
  THEN {state.text \o cfg.line_end}
  ELSE {}

RECURSIVE Wire(_)
\* The bytes the accepted write calls put on the wire.
Wire(writes) ==
  IF writes = <<>> THEN <<>> ELSE Head(writes) \o Wire(Tail(writes))

\* The suppression conditions as the claim C3 lists them.
SuppressionConditions(payload) ==
  /\ cfg.send_mode # "per_char"
  /\ cfg.dedup_window_seconds > 0
  /\ state.last_sent_payload # None
  /\ state.last_sent_time # None
  /\ payload = state.last_sent_payload[1]
  /\ now - state.last_sent_time[1] <= cfg.dedup_window_seconds

\* C3 as stated: the dedup layer writes nothing for a payload iff the
\* suppression conditions hold, and in every other case the encoded payload
\* is written to the port (the port accepting every write).
C3_AsStated ==
  pc = "serving" =>
    \A payload \in PayloadsNow :
      LET r == _send_payload_with_dedup(payload, state, cfg, now, PortOk)
          enc == _encode_payload(payload, cfg.encoding, cfg.encoding_errors)
      IN /\ (r.writes = <<>>) <=> SuppressionConditions(payload)
         /\ ~SuppressionConditions(payload) =>
              enc.err = "none" /\ Wire(r.writes) = enc.data

\* C3, corrected: the dedup layer makes no write call for a payload iff the
\* suppression conditions hold, or the payload cannot be encoded (it is
\* dropped under a strict policy, or the codec label is unknown), or pacing
\* is on and the payload encodes to no bytes; in every other case the port,
\* if it accepts every write, receives exactly the encoded payload, and a
\* port that fails has received a prefix of it.
C3_WritesUnlessSuppressed ==
  pc = "serving" =>
    \A payload \in PayloadsNow :
      LET r == _send_payload_with_dedup(payload, state, cfg, now, PortOk)
          enc == _encode_payload(payload, cfg.encoding, cfg.encoding_errors)
          silent == \/ SuppressionConditions(payload)
                    \/ enc.err # "none"
                    \/ cfg.emulate_timing /\ enc.data = <<>>
      IN /\ (r.writes = <<>>) <=> silent
         /\ SuppressionConditions(payload) <=> (r.sent = "suppressed")
         /\ ~silent => r.sent = "written" /\ Wire(r.writes) = enc.data
         /\ \A resp \in PortResps :
              LET f == _send_payload_with_dedup(payload, state, cfg, now, resp)
                  n == Len(Wire(f.writes))
              IN /\ silent => f.writes = <<>>
                 /\ n <= Len(enc.data)
                 /\ Wire(f.writes) = SubSeq(enc.data, 1, n)

\* A payload equal to the last one sent has just been suppressed inside the
\* window, one tick after it was written.
C3_Witness ==
  /\ last.sent = "suppressed"
  /\ last.writes = <<>>
  /\ last.payload = state.last_sent_payload
  /\ state.last_sent_time = Some(now - 1)
  /\ cfg.dedup_window_seconds = 1

(***************************************************************************)
(* Properties of the decoder.  They are stated for every keycode that can  *)
(* arrive in the current state.                                            *)
(***************************************************************************)
\* What a flushing terminator does to the current state.
TerminatorFlushes(r) ==
  /\ r.payload = IF state.text # <<>> \/ cfg.send_on_enter
                 THEN Some(state.text \o cfg.line_end) ELSE None
  /\ r.state.text = <<>>
  /\ r.state.last_input_time = None

\* C4 as stated: in on_enter mode a key-down of any configured terminator
\* key emits text + line_end iff text is non-empty or send_on_enter is set
\* and resets text and last_input_time either way; no other key-down emits.
C4_AsStated ==
  pc = "serving" /\ cfg.send_mode = "on_enter" =>
    \A keycode \in Keycodes :
      LET r == _handle_key_down(keycode, state, cfg, now)
      IN IF keycode \in cfg.terminator_keys
         THEN TerminatorFlushes(r)
         ELSE r.payload = None

\* C4, corrected: in on_enter mode a key-down of a configured terminator
\* key that is neither shift-like nor a kana toggle emits text + line_end
\* iff text is non-empty or send_on_enter is set and resets text and
\* last_input_time either way; every other key-down, a shift-like or
\* kana-toggle key listed as terminator included, emits nothing.
C4_TerminatorFlushes ==
  pc = "serving" /\ cfg.send_mode = "on_enter" =>
    \A keycode \in Keycodes :
      LET r == _handle_key_down(keycode, state, cfg, now)
      IN IF keycode \in cfg.terminator_keys
                          \ (SHIFT_KEYCODES \cup KANA_TOGGLE_KEYCODES)
         THEN TerminatorFlushes(r)
         ELSE r.payload = None

\* Enter has flushed a buffered character in on_enter mode.
C4_Witness ==
  /\ cfg.send_mode = "on_enter"
  /\ last.op = "key_down"
  /\ last.payload = Some(<<"a">> \o cfg.line_end)
  /\ state.text = <<>>
  /\ state.last_input_time = None

(***************************************************************************)
(* Properties of the idle-timeout loop.                                    *)
(***************************************************************************)
\* The loop has just performed an idle flush: the buffer went to the send
\* policy with its line end and was reset.
IdleFlushed ==
  /\ last.op \in {"flush", "timeout"}
  /\ last.payload # None
  /\ last.sent # "none"

\* C5: in the idle-timeout loop, whenever text is non-empty and no further
\* input events arrive, the loop eventually performs the idle flush,
\* without another keystroke.
C5_IdleFlushEventually ==
  (pc = "serving" /\ quiet /\ state.text # <<>>) ~> IdleFlushed

\* The device went silent with a character buffered, and the flush came
\* from the select timeout.
C5_Witness ==
  /\ quiet
  /\ last.op = "timeout"
  /\ last.payload = Some(<<"a">> \o cfg.line_end)
  /\ last.sent = "written"
  /\ state.text = <<>>

\* The clock readings and time stamps _maybe_flush_idle_timeout is tried on.
FlushTimes == 0..(MaxTime + 2)

\* C6: _maybe_flush_idle_timeout returns text + line_end and resets text
\* and last_input_time iff text is non-empty, last_input_time is set and
\* now - last_input_time >= idle_timeout_seconds; otherwise it returns
\* nothing and changes nothing.  Checked on each buffer of the idle-timeout
\* loop under every time stamp, unset included, every clock reading and
\* every timeout.
C6_FlushIffDue ==
  pc = "serving" /\ cfg.send_mode = "idle_timeout" =>
    \A stamp \in {None} \cup {Some(t) : t \in FlushTimes} :
      \A t \in FlushTimes, idle_timeout_seconds \in 0..2 :
        LET st == [state EXCEPT !.last_input_time = stamp]
            r == _maybe_flush_idle_timeout(st, cfg.line_end,
                                           idle_timeout_seconds, t)
            due == /\ st.text # <<>>
                   /\ stamp # None
                   /\ t - stamp[1] >= idle_timeout_seconds
        IN IF due
           THEN /\ r.payload = Some(st.text \o cfg.line_end)
                /\ r.state = [st EXCEPT !.text = <<>>,
                                        !.last_input_time = None]
           ELSE /\ r.payload = None
                /\ r.state = st

\* The loop has flushed a buffer exactly idle_timeout_seconds after its
\* last input.
C6_Witness ==
  /\ cfg.send_mode = "idle_timeout"
  /\ cfg.idle_timeout_seconds = 2
  /\ last.op \in {"flush", "timeout"}
  /\ last.payload = Some(<<"a", "a">> \o cfg.line_end)
  /\ state.text = <<>>
  /\ state.last_input_time = None
  /\ now = 2

\* C7: in per_char mode a key-down whose mapping is non-empty emits
\* exactly the mapped string as its own payload, buffers nothing and is
\* never suppressed as a duplicate; text is always "" and last_input_time
\* always unset.
C7_PerCharEmitsMapped ==
  cfg.send_mode = "per_char" =>
    /\ state.text = <<>>
    /\ state.last_input_time = None
    /\ pc = "serving" =>
         \A keycode \in Keycodes \ (SHIFT_KEYCODES \cup KANA_TOGGLE_KEYCODES) :
           LET mapped == map_keycode(keycode, shift_active(state),
                                     state.kana_mode)
               r == _handle_key_down(keycode, state, cfg, now)
               e == _process_key_event(
                      [type |-> "EV_KEY", keycode |-> keycode,
                       keystate |-> "down"], state, cfg, now, PortOk)
           IN /\ r.state = state
              /\ r.payload = IF Truthy(mapped) THEN mapped ELSE None
              /\ Truthy(mapped) =>
                   /\ e.payload = mapped
                   /\ e.sent \notin {"none", "suppressed"}
                   /\ e.state.text = <<>>
                   /\ e.state.last_input_time = None

\* A shifted character has been sent on its own in per_char mode.
C7_Witness ==
  /\ cfg.send_mode = "per_char"
  /\ last.op = "key_down"
  /\ last.payload = Some(<<"A">>)
  /\ last.sent = "written"
  /\ last.writes = <<<<65>>>>
  /\ state.text = <<>>
  /\ state.last_input_time = None

\* An empty buffer has no idle time stamp.
Unarmed(st) == st.text = <<>> => st.last_input_time = None

KeepsLastSent(r) ==
  /\ r.state.last_sent_payload = state.last_sent_payload
  /\ r.state.last_sent_time = state.last_sent_time

\* C9 as stated: last_sent_payload and last_sent_time are modified only by
\* a send in which the payload was actually written without error; every
\* other outcome leaves both unchanged.
C9_AsStated ==
  pc = "serving" =>
    \A payload \in PayloadsNow, resp \in PortResps :
      LET r == _send_payload_with_dedup(payload, state, cfg, now, resp)
      IN IF r.sent = "written"
         THEN /\ r.state.last_sent_payload = Some(payload)
              /\ r.state.last_sent_time = Some(now)
         ELSE KeepsLastSent(r)

\* C10 as stated: when encoding fails under the strict policy the payload
\* is dropped: no bytes are written, no exception propagates, and
\* last_sent_payload and last_sent_time keep their previous values.
C10_AsStated ==
  pc = "serving" =>
    \A payload \in PayloadsNow, resp \in PortResps :
      LET r == _send_payload_with_dedup(payload, state, cfg, now, resp)
          enc == _encode_payload(payload, cfg.encoding, cfg.encoding_errors)
      IN enc.err = "PayloadEncodeError" /\ r.sent # "suppressed" =>
           /\ r.writes = <<>>
           /\ r.exc = "none"
           /\ KeepsLastSent(r)

(***************************************************************************)
(* Properties of the supervisor's error handling.                          *)
(***************************************************************************)
\* An exception is in flight that the except clause does not name.
ForeignError ==
  exc \notin {"none", "return", "DeviceNotFoundError", "DeviceAccessError",
              "SerialConnectionError"}

\* C11: an exception raised inside an attempt that is none of
\* DeviceNotFoundError, DeviceAccessError and SerialConnectionError
\* propagates out of run_event_loop with no sleep and no further open
\* attempt, whatever reconnect_interval_seconds is: while it is in flight
\* the supervisor is in its except/finally path or has raised it, and no
\* step changes the exception, sleeps or opens.
C11_ForeignErrorPropagates ==
  /\ [](ForeignError => pc \in {"except", "finally", "raised"})
  /\ [][ForeignError =>
          /\ exc' = exc
          /\ sleeps' = sleeps
          /\ attempts' = attempts
          /\ opened' = opened
          /\ pc' \in {"finally", "raised"}]_vars

\* The ValueError of an unknown codec has left a reconnecting supervisor
\* after one attempt and no sleep.
C11_Witness ==
  /\ cfg.reconnect_interval_seconds > 0
  /\ pc = "raised"
  /\ exc = "ValueError"
  /\ attempts = 1
  /\ sleeps = <<>>

\* C12: with reconnect_interval_seconds == 0 the first reconnect-eligible
\* error is re-raised unchanged out of run_event_loop, with no sleep and no
\* second open attempt.
C12_NoReconnectReraises ==
  /\ [](cfg.reconnect_interval_seconds = 0 =>
          /\ sleeps = <<>>
          /\ attempts <= 1
          /\ failures <= 1
          /\ failures = 1 =>
               /\ exc \in {"DeviceNotFoundError", "DeviceAccessError",
                           "SerialConnectionError"}
               /\ pc \in {"except", "finally", "raised"})
  /\ [][cfg.reconnect_interval_seconds = 0 /\ exc \notin {"none", "return"} =>
          exc' = exc /\ pc' \in {"finally", "raised"}]_vars

\* A SerialConnectionError has left the supervisor of a configuration
\* without reconnect after its only attempt.
C12_Witness ==
  /\ cfg.reconnect_interval_seconds = 0
  /\ pc = "raised"
  /\ exc = "SerialConnectionError"
  /\ attempts = 1
  /\ closed = 1
  /\ sleeps = <<>>


\* The sink's resources are all released: nothing open, running or linked.
TornDown(r) ==
  /\ r.port = "closed"
  /\ r.bridge # "running"
  /\ r.masters = {}
  /\ r.link # "created"

RaiseReached(resp, ok) ==
  /\ ok.sent = "written"
  /\ resp.flushFails \/ resp.failAt \in 1..Len(ok.writes)

\* C14: every SerialException, OSError or write timeout raised by the port's
\* write or flush leaves the single-write and the byte-paced send as
\* SerialConnectionError, never swallowed and never as another kind, and the
\* supervisor counts it among the reconnect-eligible errors.
C14_PortErrorsBecomeSerialConnectionError ==
  /\ [](pc = "serving" =>
          \A payload \in PayloadsNow, resp \in PortResps \ {PortOk} :
            /\ RaiseReached(resp, _send_payload(payload, cfg, PortOk)) =>
                 _send_payload(payload, cfg, resp).exc = "SerialConnectionError"
            /\ RaiseReached(resp, _send_payload_with_timing(payload, cfg, PortOk)) =>
                 _send_payload_with_timing(payload, cfg, resp).exc
                   = "SerialConnectionError")
  /\ [][last'.sent = "failed" /\ last' # last =>
          /\ pc = "serving" /\ pc' = "except"
          /\ exc' = "SerialConnectionError"
          /\ failures' = failures + 1]_vars

C14_Witness ==
  /\ cfg.emulate_timing /\ FramePositive(cfg)
  /\ pc = "except" /\ exc = "SerialConnectionError"
  /\ last.sent = "failed" /\ Len(last.writes) = 1


\* C15 as stated: while the worker runs and none of its calls has raised,
\* whenever it holds no chunk, what it has written to each master is what
\* it has read from the other, also after a write that accepted fewer bytes
\* than were read.
C15_AsStated ==
  (bridge.pc \in {"top", "select", "for"} /\ ~bridge.stop /\ ~bridge.raised) =>
    /\ bridge.wr.b = bridge.rd.a
    /\ bridge.wr.a = bridge.rd.b

MatchesOf(inp) ==
  {i \in 1..Len(inp.nodes) : inp.nodes[i].opens /\ inp.nodes[i].match}

\* The call reached the scan of the listed nodes.
Scanned(inp) ==
  /\ ~Truthy(inp.device)
  /\ inp.vendor_id # None /\ inp.product_id # None
  /\ ~inp.list_fails

\* The score as the claim C17 words it.
ScoreAsStated(node, inp) ==
  LET hint == inp.device_name_contains
      occurs(field) ==
        field # None /\ Contains(Lower(hint[1]), Lower(field[1]))
  IN (IF node.caps # None /\ node.caps[1] \cap inp.prefer_event_has_keys # {}
      THEN 2 ELSE 0)
     + (IF hint # None /\ hint[1] # <<>>
           /\ (occurs(node.name) \/ occurs(node.phys) \/ occurs(node.uniq))
        THEN 1 ELSE 0)

\* C17: with two or more opened devices matching the vendor/product ids, a
\* device scores +2 for having a preferred key and +1 for the name hint
\* occurring case-insensitively in name, phys or uniq; a device is returned
\* iff its score is positive and strictly greater than every other
\* candidate's, and otherwise DeviceNotFoundError is raised.
C17_ClearWinnerOrNotFound ==
  (scan.pc = "done" /\ Scanned(scan.input)
     /\ Cardinality(MatchesOf(scan.input)) >= 2) =>
    LET inp == scan.input
        M == MatchesOf(inp)
        score(i) == ScoreAsStated(inp.nodes[i], inp)
    IN /\ \A i \in M :
            scan.result.device = Some(i)
              <=> /\ score(i) > 0
                  /\ \A j \in M \ {i} : score(j) < score(i)
       /\ scan.result.device # None =>
            scan.result.exc = "none" /\ scan.result.device[1] \in M
       /\ scan.result.device = None =>
            scan.result.exc = "DeviceNotFoundError"

C17_Witness ==
  /\ scan.pc = "done" /\ Scanned(scan.input)
  /\ Cardinality(MatchesOf(scan.input)) = 3
  /\ scan.input.device_name_contains = Some(<<"S", "C">>)
  /\ scan.input.prefer_event_has_keys # {}
  /\ scan.result.exc = "none"
  /\ scan.result.device = Some(3)

\* C18: a configured path comes first, a missing path is
\* DeviceNotFoundError, a permission or other OS error on opening it is
\* DeviceAccessError; with only a vid/pid pair, a failing enumeration is
\* DeviceAccessError and no matching device is DeviceAccessError if an open
\* failed during the scan and DeviceNotFoundError otherwise; with neither a
\* path nor a complete pair, DeviceNotFoundError.
C18_OpenFailureClasses ==
  scan.pc = "done" =>
    LET inp == scan.input
        r == scan.result
        pair == inp.vendor_id # None /\ inp.product_id # None
    IN /\ Truthy(inp.device) =>
            /\ inp.path = "missing" => r.exc = "DeviceNotFoundError"
            /\ inp.path \in {"PermissionError", "OSError"} =>
                 r.exc = "DeviceAccessError"
            /\ inp.path = "ok" => r.exc = "none" /\ r.device = Some(0)
       /\ (~Truthy(inp.device) /\ pair /\ inp.list_fails) =>
            r.exc = "DeviceAccessError"
       /\ (Scanned(inp) /\ MatchesOf(inp) = {}) =>
            r.exc = IF \E i \in 1..Len(inp.nodes) : ~inp.nodes[i].opens
                    THEN "DeviceAccessError" ELSE "DeviceNotFoundError"
       /\ (~Truthy(inp.device) /\ ~pair) => r.exc = "DeviceNotFoundError"

C18_Witness ==
  /\ scan.pc = "done" /\ Scanned(scan.input)
  /\ Len(scan.input.nodes) = 2
  /\ ~scan.input.nodes[1].opens /\ ~scan.input.nodes[2].match
  /\ scan.result.exc = "DeviceAccessError"


\* C19 as stated: a repeat (hold) event of a key that maps to a character
\* does what its key-down does: the same text, the same emitted payload.
C19_AsStated ==
  pc = "serving" =>
    \A k \in {x \in cfg.keys :
                Truthy(map_keycode(x, shift_active(state), state.kana_mode))} :
      LET ev(ks) == [type |-> "EV_KEY", keycode |-> k, keystate |-> ks]
          hold == _process_key_event(ev("hold"), state, cfg, now, PortOk)
          down == _process_key_event(ev("down"), state, cfg, now, PortOk)
      IN /\ hold.state.text = down.state.text
         /\ hold.payload = down.payload

\* C20: after every key event shift_keys is the set of shift-like keys whose
\* most recent event was a key-down, and shift_active holds iff that set is
\* not empty; releasing one of two held shift keys leaves shift active.
C20_ShiftActiveIffHeld ==
  /\ state.shift_keys = held.keys
  /\ shift_active(state) <=> held.keys # {}
  /\ Cardinality(held.released_from) = 2 => shift_active(state)

C20_Witness ==
  /\ pc = "serving" /\ last.op = "key_up"
  /\ held.released_from = {"KEY_LEFTSHIFT", "KEY_RIGHTSHIFT"}
  /\ held.keys = {"KEY_RIGHTSHIFT"}
  /\ state.shift_keys = {"KEY_RIGHTSHIFT"} /\ shift_active(state)


\* The step is a step of an event loop that hands a payload to the dedup
\* layer (the clock alone moving is no such step).
EmissionStep ==
  /\ pc = "serving"
  /\ last'.payload # None
  /\ ~(state' = state /\ last' = last /\ now' # now)

C22_PacedSendTakesFrames ==
  (paced.pc = "done" /\ paced.exc = "none") =>
    LET sc == paced.serial
        parity_bit == IF sc.parity = "N" THEN 0 ELSE 1
        frame_bits2 == 2 * (1 + sc.bytesize + parity_bit) + sc.stopbits2
    IN 2 * sc.baudrate * (paced.clock - paced.start)
         >= Len(paced.data) * frame_bits2 * TimeUnit

\* Two bytes at 8E1.5 and baud rate 2 (23 units a frame) took exactly two
\* frame times.
C22_Witness ==
  /\ paced.pc = "done" /\ paced.exc = "none"
  /\ Len(paced.data) = 2
  /\ paced.serial = SerialSetting(2, 8, "E", 3)
  /\ paced.flushes = 1
  /\ paced.clock - paced.start = 46

\* The bytes the port accepted, in call order.
Accepted(calls) ==
  SelectSeq(calls, LAMBDA c : ~c.raised /\ c.ret = Some(1))

\* The rules of the paced send over its write calls so far, the returns in
\* retryable being those after which a byte is tried again.
PacedRules(retryable) ==
  LET calls == paced.calls
      n == Len(calls)
      failed(k) == \/ calls[k].raised
                   \/ calls[k].ret \notin retryable \cup {Some(1)}
                   \/ /\ calls[k].ret \in retryable
                      /\ k >= 3
                      /\ calls[k - 1].byte = calls[k].byte
                      /\ calls[k - 2].byte = calls[k].byte
  IN /\ \A k \in 1..n : calls[k].byte \in {paced.data[i] : i \in 1..Len(paced.data)}
     /\ \A k \in 1..(n - 1) : calls[k].byte <= calls[k + 1].byte
     /\ LET acc == Accepted(calls)
        IN /\ Len(acc) <= Len(paced.data)
           /\ \A k \in 1..Len(acc) : acc[k].byte = paced.data[k]
     /\ \A b \in 65..(64 + Len(paced.data)) :
          Cardinality({k \in 1..n : calls[k].byte = b}) <= 3
     /\ \A k \in 1..(n - 1) :
          calls[k].byte = calls[k + 1].byte =>
            ~calls[k].raised /\ calls[k].ret \in retryable
     /\ \A k \in 1..n :
          failed(k) => /\ k = n
                       /\ paced.pc = "done"
                       /\ paced.exc = "SerialConnectionError"
                       /\ paced.flushes = 0
     /\ paced.flushes <= 1
     /\ paced.flushes = 1 => Len(Accepted(calls)) = Len(paced.data)
     /\ (paced.pc = "done" /\ paced.exc = "none" /\ paced.data # <<>>) =>
          paced.flushes = 1

\* C27 as stated: the bytes are written one per call in order, a byte is
\* attempted at most three times and retried only when the write returned
\* 0; the send raises SerialConnectionError when the third attempt also
\* returns 0 or a write returns anything but 0 or 1; nothing is written
\* after a failure and flush is called once, after the last byte, only on
\* success.
C27_AsStated == PacedRules({Some(0)})

\* C27, corrected: as stated, with a write that returns None treated like
\* one that returns 0: the byte is tried again, and the send raises when the
\* third attempt also returns 0 or None.
C27_PacedRetries == PacedRules({None, Some(0)})

\* The first byte went through at its third attempt, after a None and a 0,
\* and the send completed.
C27_Witness ==
  /\ paced.pc = "done" /\ paced.exc = "none" /\ paced.flushes = 1
  /\ Len(paced.data) = 2 /\ Len(paced.calls) = 4
  /\ paced.calls[1].ret = None /\ paced.calls[2].ret = Some(0)
  /\ paced.calls[3].ret = Some(1) /\ paced.calls[4].ret = Some(1)

\* C23: cli.main returns 0 when run_event_loop returns or KeyboardInterrupt
\* is raised, 2 for FileNotFoundError, 4 for ValueError, 3 for
\* DeviceNotFoundError and DeviceAccessError, 5 for SerialConnectionError;
\* an exception of any other class leaves main.
C23_MainExitCodes ==
  (cli.pc = "done" /\ cli.platform = "linux") =>
    /\ cli.exc \in {"none", "KeyboardInterrupt"} => cli.code = Some(0)
    /\ cli.exc = "FileNotFoundError" => cli.code = Some(2)
    /\ cli.exc = "ValueError" => cli.code = Some(4)
    /\ cli.exc \in {"DeviceNotFoundError", "DeviceAccessError"} =>
         cli.code = Some(3)
    /\ cli.exc = "SerialConnectionError" => cli.code = Some(5)
    /\ cli.exc \notin {"none", "KeyboardInterrupt", "FileNotFoundError",
                       "ValueError", "DeviceNotFoundError",
                       "DeviceAccessError", "SerialConnectionError"} =>
         cli.code = None /\ cli.raised = cli.exc
    /\ cli.code # None => cli.raised = "none"

\* main has returned 5 for a SerialConnectionError of the running loop.
C23_Witness ==
  /\ cli.pc = "done"
  /\ cli.exc = "SerialConnectionError"
  /\ cli.port_opened
  /\ cli.code = Some(5)

\* C24 as stated: every AppConfig load_config returns has vendor_id and
\* product_id both set or both unset (a file naming exactly one of them is
\* refused with ValueError).
C24_AsStated ==
  (cli.pc # "none" /\ cli.config # None) =>
    (cli.config[1].vendor_id = None <=> cli.config[1].product_id = None)

\* C25 as stated: load_config returns no AppConfig for a file whose
\* output.encoding names no known codec, so with such a file no input
\* device and no serial port is ever opened.
C25_AsStated ==
  (cli.pc # "none" /\ cli.file.encoding \notin {"utf-8", "ascii"}) =>
    /\ cli.config = None
    /\ ~cli.device_opened
    /\ ~cli.port_opened
\* C26: tearing the virtual sink down unlinks the pty_link path iff this
\* instance created the symlink; a file or directory found at the path is
\* left as it is and creation fails with SerialConnectionError; a symlink
\* found at the path is removed and a new one to the peer slave put in its
\* place.
C26_SymlinkOwnership ==
  /\ link.pc = "closed" =>
       /\ link.unlinks = 1 <=> link.created_symlink
       /\ link.unlinks <= 1
  /\ link.pc \in {"create", "failed"} => link.unlinks = 0
  /\ (link.pc \notin {"none", "create"} /\ link.pty_link # None
        /\ link.before.kind \in {"file", "dir"}) =>
       /\ link.pc = "failed"
       /\ link.exc = "SerialConnectionError"
       /\ link.made = link.before
  /\ (link.pc \in {"serving", "closed"} /\ link.pty_link # None) =>
       /\ link.before.kind \in {"absent", "symlink"}
       /\ link.created_symlink
       /\ link.made = [kind |-> "symlink", target |-> "peer_slave"]
  /\ (link.pc \in {"serving", "closed"} /\ link.pty_link = None) =>
       /\ ~link.created_symlink
       /\ link.made = link.before

\* A sink that replaced an existing symlink by its own has been torn down
\* and has unlinked it.
C26_Witness ==
  /\ link.pc = "closed"
  /\ link.before.kind = "symlink"
  /\ link.created_symlink
  /\ link.unlinks = 1
  /\ link.node.kind = "absent"
\* The idle-timeout loop is at its top with buffered text whose timeout has
\* already passed.
FlushDue ==
  /\ pc = "serving" /\ cfg.send_mode = "idle_timeout" /\ loop = "top"
  /\ state.text # <<>>
  /\ state.last_input_time # None
  /\ now - state.last_input_time[1] >= cfg.idle_timeout_seconds

\* The step is one of the loop (the clock alone moving is not).
LoopActs == last' # last \/ state' # state \/ pc' # pc \/ loop' # loop

\* C28: at the top of the idle-timeout loop, when text is non-empty and the
\* timeout has already passed since last_input_time, the loop's next step is
\* the flush of the whole text, not a poll of the device, and the loop
\* restarts; when text is empty its next step is a poll that waits without
\* a deadline (it returns for input or with an error, never by timeout) and
\* nothing is flushed.
C28_FlushBeforePolling ==
  [][/\ (FlushDue /\ LoopActs) =>
          /\ last'.op = "flush"
          /\ last'.payload = Some(state.text \o cfg.line_end)
          /\ now' = now
          /\ pc' = "serving" => (state'.text = <<>> /\ loop' = "top")
     /\ (pc = "serving" /\ cfg.send_mode = "idle_timeout" /\ loop = "top"
           /\ state.text = <<>> /\ LoopActs) =>
          /\ last'.op \in {"read", "select_error"}
          /\ last'.payload = None
          /\ now' = now
          /\ pc' = "serving" => (state' = state /\ emitted' = emitted)]_vars

\* The loop has flushed text that was overdue when it came back to its top,
\* and goes on.
C28_Witness ==
  /\ pc = "serving"
  /\ cfg.send_mode = "idle_timeout"
  /\ loop = "top"
  /\ last.op = "flush"
  /\ last.payload # None
  /\ last.sent = "written"
  /\ state.text = <<>>
\* What the Backspace rule does to the buffer: no payload; outside per_char
\* the last character of text goes (nothing when text is empty) and, in
\* idle_timeout mode, last_input_time becomes the current time; nothing
\* else changes, and nothing at all in per_char mode.
BackspaceDeletes(r) ==
  /\ r.payload = None
  /\ cfg.send_mode = "per_char" => r.state = state
  /\ cfg.send_mode # "per_char" =>
       /\ state.text = <<>> => r.state.text = <<>>
       /\ state.text # <<>> =>
            r.state.text \o <<state.text[Len(state.text)]>> = state.text
       /\ r.state.last_input_time =
            IF cfg.send_mode = "idle_timeout"
            THEN Some(now) ELSE state.last_input_time
       /\ [r.state EXCEPT !.text = state.text,
                          !.last_input_time = state.last_input_time] = state

\* C29 as stated: a Backspace key-down never emits a payload and, outside
\* per_char mode, deletes the last character of text, in every mode and
\* under every configuration.
C29_AsStated ==
  pc = "serving" =>
    BackspaceDeletes(_handle_key_down("KEY_BACKSPACE", state, cfg, now))

\* C29, corrected: a Backspace key-down emits no payload and deletes the
\* last character as described, unless send_mode is on_enter and
\* KEY_BACKSPACE is listed in terminator_keys; then it is handled as a
\* terminator: text + line_end is emitted (when text is non-empty or
\* send_on_enter is set) and the whole buffer is reset.
C29_BackspaceDeletes ==
  pc = "serving" =>
    LET r == _handle_key_down("KEY_BACKSPACE", state, cfg, now)
    IN IF cfg.send_mode = "on_enter" /\ "KEY_BACKSPACE" \in cfg.terminator_keys
       THEN /\ r.payload = IF state.text # <<>> \/ cfg.send_on_enter
                           THEN Some(state.text \o cfg.line_end) ELSE None
            /\ r.state.text = <<>>
       ELSE BackspaceDeletes(r)

\* In idle_timeout mode a Backspace has just taken the only character of
\* the buffer and stamped the time.
C29_Witness ==
  /\ pc = "serving"
  /\ cfg.send_mode = "idle_timeout"
  /\ "KEY_BACKSPACE" \in cfg.keys
  /\ last.op = "key_down"
  /\ last.payload = None
  /\ state.text = <<>>
  /\ state.last_input_time = Some(now)
  /\ now >= 1
\* C30: a key-down is handled by the first rule that matches, in the order
\* shift-like key, kana-toggle key, terminator key (on_enter mode only),
\* Backspace, keymap: a shift-like or kana-toggle key listed as terminator
\* only changes the modifier state and never flushes; a Backspace listed as
\* terminator flushes in on_enter mode and deletes nothing; a key of the
\* keymap rule leaves the modifiers alone and flushes nothing in the
\* buffering modes.
C30_FirstRuleApplies ==
  pc = "serving" =>
    \A keycode \in Keycodes :
      LET r == _handle_key_down(keycode, state, cfg, now)
          listed == keycode \in cfg.terminator_keys
                    /\ cfg.send_mode = "on_enter"
      IN CASE keycode \in {"KEY_LEFTSHIFT", "KEY_RIGHTSHIFT"} ->
                /\ r.payload = None
                /\ r.state = [state EXCEPT !.shift_keys = @ \cup {keycode}]
           [] keycode = "KEY_KATAKANAHIRAGANA" ->
                /\ r.payload = None
                /\ r.state = [state EXCEPT !.kana_mode = ~state.kana_mode]
           [] OTHER ->
                /\ r.state.shift_keys = state.shift_keys
                /\ r.state.kana_mode = state.kana_mode
                /\ IF listed
                   THEN TerminatorFlushes(r)
                   ELSE IF keycode = "KEY_BACKSPACE"
                   THEN /\ r.payload = None
                        /\ Len(r.state.text) <= Len(state.text)
                   ELSE /\ Len(r.state.text) >= Len(state.text)
                        /\ SubSeq(r.state.text, 1, Len(state.text)) = state.text
                        /\ cfg.send_mode # "per_char" => r.payload = None

\* In on_enter mode with the shift key listed as terminator, the shift key
\* went down over a non-empty buffer and nothing was flushed.
C30_Witness ==
  /\ pc = "serving"
  /\ cfg.send_mode = "on_enter"
  /\ "KEY_LEFTSHIFT" \in cfg.terminator_keys
  /\ "KEY_LEFTSHIFT" \in state.shift_keys
  /\ last.op = "key_down"
  /\ last.payload = None
  /\ state.text # <<>>
\* C31: in idle_timeout and per_char modes a key-down of a key listed in
\* terminator_keys is handled exactly as if the key were not listed: no
\* flush of text + line_end and no buffer reset, the key goes on to the
\* Backspace and keymap rules; in idle_timeout mode no key event emits a
\* payload, so every payload there comes from the idle flush.
C31_TerminatorOnlyOnEnter ==
  /\ (pc = "serving" /\ cfg.send_mode # "on_enter") =>
       \A tk \in TerminatorSets : \A keycode \in tk :
         LET listed == _handle_key_down(
                         keycode, state, [cfg EXCEPT !.terminator_keys = tk],
                         now)
             plain == _handle_key_down(
                        keycode, state, [cfg EXCEPT !.terminator_keys = {}],
                        now)
         IN /\ listed = plain
            /\ cfg.send_mode = "idle_timeout" => listed.payload = None
            /\ (state.text # <<>> /\ keycode # "KEY_BACKSPACE") =>
                 /\ Len(listed.state.text) >= Len(state.text)
                 /\ listed.payload # Some(state.text \o cfg.line_end)
  /\ (cfg.send_mode = "idle_timeout" /\ last.payload # None) =>
       last.op \in {"flush", "timeout"}

\* In idle_timeout mode Enter, the configured terminator, went down over a
\* buffered character and the buffer is as it was.
C31_Witness ==
  /\ pc = "serving"
  /\ cfg.send_mode = "idle_timeout"
  /\ "KEY_ENTER" \in cfg.terminator_keys
  /\ last.op = "key_down"
  /\ last.payload = None
  /\ state.text = <<"a">>
  /\ state.last_input_time # None
  /\ state.last_input_time[1] < now
\* C34 as stated: the worker calls select only while both master fds are
\* open, reads a master only while it is open and writes to the other
\* master only while that one is open; after close() has closed a master
\* the worker makes no further call on its fd number.
C34_AsStated ==
  [][/\ (bridge.pc = "select" /\ bridge'.pc # "select") =>
          bridge.open = {"a", "b"}
     /\ (bridge.pc = "read" /\ bridge'.pc # "read") =>
          bridge.fd \in bridge.open
     /\ (bridge.pc = "write" /\ bridge'.pc # "write") =>
          (IF bridge.fd = "a" THEN "b" ELSE "a") \in bridge.open]_vars
\* C35: when the scan of _select_device_by_vid_pid is over, the handles it
\* opened and has not closed are exactly the returned one when it returns,
\* and none when it raises; it closes only handles it opened.
C35_OnlySelectedStaysOpen ==
  (scan.pc = "done" /\ Scanned(scan.input)) =>
    LET r == scan.result
        nodes == scan.input.nodes
    IN /\ r.opened = {i \in 1..Len(nodes) : nodes[i].opens}
       /\ r.closed \subseteq r.opened
       /\ {i \in r.opened : ~nodes[i].match} \subseteq r.closed
       /\ IF r.exc = "none"
          THEN /\ r.device # None
               /\ r.opened \ r.closed = {r.device[1]}
          ELSE /\ r.device = None
               /\ r.opened \ r.closed = {}

\* Of two matching devices one was selected and the other closed,
\* with a non-matching device closed during the scan.
C35_Witness ==
  /\ scan.pc = "done" /\ Scanned(scan.input)
  /\ Cardinality(MatchesOf(scan.input)) = 2
  /\ Len(scan.input.nodes) = 3
  /\ scan.result.exc = "none"
  /\ Cardinality(scan.result.closed) = 2
\* C36: in idle_timeout mode a non-empty text always has last_input_time
\* set, so whenever the loop is about to wait with text pending it waits
\* with a deadline; in on_enter and per_char modes last_input_time is never
\* set.
C36_PendingTextHasDeadline ==
  /\ cfg.send_mode = "idle_timeout" =>
       (state.text # <<>> => state.last_input_time # None)
  /\ cfg.send_mode \in {"on_enter", "per_char"} =>
       state.last_input_time = None
  /\ (pc = "serving" /\ cfg.send_mode = "idle_timeout" /\ loop = "top"
        /\ state.text # <<>>) =>
       state.last_input_time[1] <= now

\* The idle-timeout loop is back at its top with two buffered characters,
\* the second just typed, and a deadline still ahead.
C36_Witness ==
  /\ pc = "serving"
  /\ cfg.send_mode = "idle_timeout"
  /\ loop = "top"
  /\ Len(state.text) = 2
  /\ state.last_input_time = Some(now)
  /\ cfg.idle_timeout_seconds > 0

\* C37: every serving attempt starts from a newly constructed buffer: when
\* the event loop has just been entered, on the first attempt and on every
\* attempt after a reconnect, text is empty, no shift key is held, kana mode
\* is off and no payload or time is recorded as last sent; hence no idle
\* flush is due and no payload is suppressed as a duplicate at that point,
\* whatever the dedup window.
C37_FreshStatePerAttempt ==
  last.op = "serve" =>
    /\ state = [text |-> <<>>, shift_keys |-> {}, kana_mode |-> FALSE,
                last_input_time |-> None, last_sent_payload |-> None,
                last_sent_time |-> None]
    /\ emitted = None
    /\ \A w \in 0..MaxTime :
         /\ _maybe_flush_idle_timeout(state, cfg.line_end, w, now + w).payload = None
         /\ \A text \in {<<>>, <<"a">>, <<"a", "a">>} :
              _send_payload_with_dedup(text \o cfg.line_end, state,
                                       [cfg EXCEPT !.dedup_window_seconds = w],
                                       now, PortOk).sent # "suppressed"

\* The event loop has been entered again after a failed attempt and a
\* reconnect sleep.
C37_Witness ==
  /\ last.op = "serve"
  /\ pc = "serving"
  /\ attempts >= 2
  /\ failures >= 1
  /\ sleeps # <<>>

\* C38 as stated: the time the dedup window is measured from moves only
\* when a payload is handed to the port.  A suppressed payload leaves
\* last_sent_time unchanged; a send that changes last_sent_time has passed
\* the payload's bytes to the port; and after a payload written at time t,
\* identical payloads following one another are suppressed up to t + window
\* and the first one after t + window is sent.
C38_AsStated ==
  (pc = "serving" /\ cfg.send_mode # "per_char") =>
    \A payload \in PayloadsNow, w \in 1..MaxTime :
      LET c == [cfg EXCEPT !.dedup_window_seconds = w]
          r == _send_payload_with_dedup(payload, state, c, now, PortOk)
      IN /\ r.sent = "suppressed" => r.state.last_sent_time = state.last_sent_time
         /\ r.state.last_sent_time # state.last_sent_time =>
              r.sent \in {"written", "empty"}
         /\ r.sent = "written" =>
              \A d1 \in 0..w, d2 \in 0..(w + 1) :
                LET r2 == _send_payload_with_dedup(payload, r.state, c, now + d1, PortOk)
                    r3 == _send_payload_with_dedup(payload, r2.state, c,
                                                   now + d1 + d2, PortOk)
                IN /\ r2.sent = "suppressed"
                   /\ r2.state.last_sent_time = Some(now)
                   /\ IF d1 + d2 <= w
                      THEN r3.sent = "suppressed"
                      ELSE r3.sent = "written" /\ r3.state.last_sent_time = Some(now + d1 + d2)

\* The events that put a character into the buffer or take one out: the
\* key-down of Backspace and of a key the keymap maps under the current
\* modifiers.
AddsOrDeletes(event, st) ==
  /\ event.type = "EV_KEY"
  /\ event.keystate = "down"
  /\ event.keycode \notin SHIFT_KEYCODES \cup KANA_TOGGLE_KEYCODES
  /\ \/ event.keycode = "KEY_BACKSPACE"
     \/ Truthy(map_keycode(event.keycode, shift_active(st), st.kana_mode))

\* C39: in idle_timeout mode, for every event the loop may be about to
\* handle, of a device with any keys, always: the key-down of a shift-like
\* key, of the kana toggle and of an unmapped key, every key-up, every auto-repeat and every
\* event that is not EV_KEY leave text and last_input_time unchanged and
\* emit nothing, so the time at which the pending text is flushed stays the
\* same; the key-down of a mapped character or of Backspace sets
\* last_input_time to the current time.
C39_OnlyTextKeysRefresh ==
  []((pc = "serving" /\ cfg.send_mode = "idle_timeout" /\ loop = "batch") =>
       \A event \in Events(Keycodes) :
         LET r == _process_key_event(event, state, cfg, now, PortOk)
         IN IF AddsOrDeletes(event, state)
            THEN r.state.last_input_time = Some(now)
            ELSE /\ r.state.text = state.text
                 /\ r.state.last_input_time = state.last_input_time
                 /\ r.payload = None
                 /\ \A t \in now..(now + MaxTime) :
                      _maybe_flush_idle_timeout(r.state, cfg.line_end,
                                                cfg.idle_timeout_seconds,
                                                t).payload
                      = _maybe_flush_idle_timeout(state, cfg.line_end,
                                                  cfg.idle_timeout_seconds,
                                                  t).payload)

\* Text typed before the kana toggle is pending in idle_timeout mode: the
\* last key-down added no text (in kana mode KEY_A would have added a kana
\* character) and the older time stamp is still in place.
C39_Witness ==
  /\ pc = "serving"
  /\ cfg.send_mode = "idle_timeout"
  /\ last.op = "key_down"
  /\ state.kana_mode
  /\ state.text = <<"a">>
  /\ state.last_input_time # None
  /\ state.last_input_time[1] < now

SameModifiers(st1, st2) ==
  /\ st1.shift_keys = st2.shift_keys
  /\ st1.kana_mode = st2.kana_mode

\* C40: within a serving attempt, a step that emits a payload (a terminator
\* flush, an idle flush, a per_char send; written, suppressed or dropped)
\* and a step that empties the buffer leave shift_keys and kana_mode as they
\* were; kana_mode changes only in a key-down step and shift_keys only in a
\* key-down or key-up step, by shift-like keys, and these steps emit
\* nothing and leave the text alone.
C40_ModifiersOutliveFlush ==
  [][(pc = "serving" /\ pc' = "serving") =>
       /\ (\/ last'.payload # None
           \/ last'.op \in {"flush", "timeout"}
           \/ state'.text # state.text) =>
            SameModifiers(state', state)
       /\ state'.kana_mode # state.kana_mode =>
            /\ last'.op = "key_down"
            /\ state'.shift_keys = state.shift_keys
       /\ state'.shift_keys # state.shift_keys =>
            /\ last'.op \in {"key_down", "key_up"}
            /\ state'.kana_mode = state.kana_mode
            /\ (state'.shift_keys \ state.shift_keys)
                 \cup (state.shift_keys \ state'.shift_keys)
                   \subseteq SHIFT_KEYCODES
            /\ last'.op = "key_up" => state'.shift_keys \subseteq state.shift_keys
            /\ last'.op = "key_down" => state.shift_keys \subseteq state'.shift_keys]_vars

\* A payload has been flushed and written while a shift key was held or
\* kana mode was on, and the modifier is still in place.
C40_Witness ==
  /\ pc = "serving"
  /\ last.payload # None
  /\ last.sent = "written"
  /\ state.text = <<>>
  /\ cfg.send_mode # "per_char"
  /\ (state.shift_keys # {} \/ state.kana_mode)

\* The position of a released resource in the order of construction:
\* _create_virtual_pty opens the PTY pairs, creates the symlink and starts
\* the bridge worker, then _open_serial_port opens the port on the app-side
\* slave.  The worker is released by the stop flag and the join.
ConstructionRank(release) ==
  CASE release \in {"close master_a", "close master_b"} -> 1
    [] release = "unlink" -> 2
    [] release \in {"stop", "join"} -> 3
    [] release = "port.close" -> 4

\* C32 as stated: the releases of a serving attempt come in reverse order of
\* construction: of two releases the earlier one is of a resource that was
\* constructed no earlier than the resource of the later one.
C32_AsStated ==
  \A i, j \in 1..Len(res.released) :
    i < j => ConstructionRank(res.released[i]) >= ConstructionRank(res.released[j])

\* C33 as stated: when _open_serial_port has raised, nothing it created is
\* still allocated: no master or slave fd is open, no bridge runs, no
\* symlink it created is left, and no serial port is open.
C33_AsStated ==
  opening.pc = "raised" =>
    /\ opening.r.masters = {}
    /\ opening.slaves = {}
    /\ opening.r.bridge # "running"
    /\ opening.r.link # "created"
    /\ opening.r.port # "open"

====
